---- MODULE Spec2Model ----
(***************************************************************************)
(* A model of the JOS lab kernel of this repository with the fine-grained  *)
(* locking challenge applied (hw10.md): the environment table, the         *)
(* round-robin scheduler (kern/sched.c), the IPC system calls, the frame   *)
(* allocator and page tables (kern/pmap.c), and the user-level             *)
(* copy-on-write fork (lib/fork.c).                                        *)
(*                                                                         *)
(* Twelve specifications share the module:                                 *)
(*   Spec      processors, env_lock, traps, system calls, sched_yield      *)
(*   SpecFork  address spaces, fork/duppage/pgfault, user reads and writes *)
(*   SpecPmap  the frame allocator and page_insert/page_remove as called   *)
(*             from several processors, one pmap_lock section per step     *)
(*   SpecLocks the three spin locks along whole kernel entries             *)
(*   SpecIpc   sys_ipc_recv and sys_ipc_try_send with page transfer        *)
(*   SpecFair  Spec with every processor's kernel steps weakly fair        *)
(*   SpecEnvid environment identities: allocation, lookup, destruction     *)
(*   SpecFrames the free-frame list under alloc, decref and free           *)
(*   SpecWait  sys_wait_trap, the IDE interrupt and wait_trap_handler      *)
(*   SpecWaitFair SpecWait with fair processors, device and interrupts     *)
(*   SpecIpow  _ipow on machine words, one loop iteration per step         *)
(*   SpecUmc   user_mem_check over a page table, on wrapping addresses     *)
(***************************************************************************)
EXTENDS Integers, Sequences, FiniteSets, TLC

(***************************************************************************)
(* Bounds of the model.                                                    *)
(***************************************************************************)
\* slots of the environment table envs[] (inc/env.h has 1024)
NENV == 3
\* processors
NCPU == 2
\* physical page frames (npages)
NFRAMES == 15
\* the bytes a page can hold are 0 .. MaxVal
MaxVal == 1
\* calls of sys_exofork that create a child, over a whole behaviour
MaxForks == 2
\* frames on the free list when the processors start to use pmap
PmapFree == 2
\* paths through the pmap interface entered over a whole behaviour
MaxOps == 6
\* system calls completed over a whole behaviour of the IPC specification
MaxIpc == 4
\* generations a slot of the environment table goes through
MaxGen == 2
\* frames on the free list after page_init, for the allocator taken alone
BootFree == 4
\* frames on the free list when the environments start to use IPC
IpcFree == 1
\* disk commands issued over a whole behaviour of the wait specification
MaxIde == 2
\* bits of an unsigned long long in the model of _ipow (the code has 64)
WordBits == 4
\* bits of an address in the model of user_mem_check (the code has 32)
AddrBits == 5

NULL == 0 - 1

EnvSlots == 0 .. (NENV - 1)
CPUs == 0 .. (NCPU - 1)

ENV_FREE == "ENV_FREE"
ENV_DYING == "ENV_DYING"
ENV_RUNNABLE == "ENV_RUNNABLE"
ENV_RUNNING == "ENV_RUNNING"
ENV_NOT_RUNNABLE == "ENV_NOT_RUNNABLE"
EnvStatus == {ENV_FREE, ENV_DYING, ENV_RUNNABLE, ENV_RUNNING, ENV_NOT_RUNNABLE}

CPU_STARTED == "CPU_STARTED"
CPU_HALTED == "CPU_HALTED"

\* Address arguments of the IPC system calls that are no page of the
\* model: an address at or above UTOP, and an address below UTOP that is not
\* page-aligned.
AboveUTOP == "above_utop"
Unaligned == "unaligned"

\* the permission arguments: PTE_U|PTE_P, PTE_U|PTE_P|PTE_W, and one with
\* a bit outside PTE_SYSCALL; PermNone is the value 0 of env_ipc_perm
PermNone == [p |-> FALSE, w |-> FALSE, cow |-> FALSE, other |-> FALSE]
PermRO == [p |-> TRUE, w |-> FALSE, cow |-> FALSE, other |-> FALSE]
PermRW == [p |-> TRUE, w |-> TRUE, cow |-> FALSE, other |-> FALSE]
PermBad == [p |-> TRUE, w |-> FALSE, cow |-> FALSE, other |-> TRUE]
SendPerms == {PermRO, PermRW, PermBad}

\* no send in progress, no unmap in progress
NoSend == [s |-> NULL]
NoUnmap == [u |-> NULL]

\* the three spin locks of kern/spinlock.c
LkEnv == "env_lock"
LkPmap == "pmap_lock"
LkCons == "cons_lock"
Locks == {LkEnv, LkPmap, LkCons}

VARIABLES
    \* ---- kernel: environment table, processors, env_lock ----
    env_status,       \* envs[i].env_status
    env_parent_id,    \* envs[i].env_parent_id (a slot, or NULL for none)
    env_ipc_recving,  \* envs[i].env_ipc_recving
    curenv,           \* per processor: slot of curenv, or NULL
    cpu_status,       \* thiscpu->cpu_status
    env_lock,         \* processor holding env_lock, or NULL
    pc,               \* per processor: where it is in the kernel
    scan_begin,       \* sched_yield's local 'begin'
    scan_cur,         \* sched_yield's local 'cur'
    scan_cnt,         \* slots examined by the running sched_yield call
    since,            \* sched_yield calls that passed the waiting env over
    steady,           \* no environment has blocked, exited or changed status
    \* ---- physical memory and address spaces (kern/pmap.c) ----
    pp_ref,           \* pages[f].pp_ref
    pp_link,          \* pages[f].pp_link (next free frame, or NULL)
    page_free_list,   \* head of the frame free list, or NULL
    frame_data,       \* contents of frame f (one byte stands for the page)
    env_pgdir,        \* envs[i].env_pgdir: frame of the page directory
    pgdir,            \* page directory entries: frame of the page table
    pte,              \* page table entries, per environment and page
    kpanic,           \* the kernel has stopped in panic()
    \* ---- environments as user programs (lib/fork.c) ----
    env_free_list,    \* free environment slots, head first
    env_pgfault_upcall, \* envs[i].env_pgfault_upcall is set
    upc,              \* where the environment's user code is
    uva,              \* fork's loop variable addr / pgfault's addr
    uchild,           \* fork's local envid (the child), or NULL
    uval,             \* the byte of the store being executed (NULL: a load)
    nforks,           \* children created so far
    \* ---- processors inside paths that use the pmap interface ----
    ppc,              \* where the processor is in its path
    p_pp,             \* the path's local pp: a frame, or NULL
    p_env,            \* the environment whose address space it works on
    p_va,             \* the page it works on
    p_fresh,          \* pp came from page_alloc in this path
    p_k,              \* _env_free: index of the next thing to release
    nops,             \* paths entered so far
    p_same,           \* the frame the last re-inserting page_insert put back
    \* ---- IPC state of the environments (specification SpecIpc) ----
    env_ipc_from,     \* envs[i].env_ipc_from: slot of the sender, or NULL
    env_ipc_value,    \* envs[i].env_ipc_value
    env_ipc_dstva,    \* envs[i].env_ipc_dstva
    env_ipc_perm,     \* envs[i].env_ipc_perm
    reg_eax,          \* envs[i].env_tf.tf_regs.reg_eax: the last result
    snd,              \* sys_ipc_try_send between page_lookup and the rest
    unm,              \* sys_page_unmap between envid2env and page_remove
    g_dst,            \* the dstva argument of the environment's last receive
    nsucc,            \* sends that succeeded since its last receive
    nipc,             \* system calls completed so far
    \* ---- identities of the environments (specification SpecEnvid) ----
    env_gen,          \* generation part of envs[i].env_id (0: never used)
    par_gen,          \* generation part of envs[i].env_parent_id
    stale,            \* identities of environments destroyed and freed
    e_res,            \* the last envid2env: caller, identity, result
    \* ---- sleeping until an interrupt (specification SpecWait) ----
    env_wait_trap,    \* envs[i].env_wait_trap: a trap number, or -1 (NULL)
    ide_busy,         \* the disk's status register has IDE_BSY set
    ide_irq,          \* the disk has raised IRQ_IDE, no processor took it yet
    w_pc,             \* where the environment is in its disk operation
    nide,             \* disk commands issued so far
    \* ---- _ipow (inc/math.h) ----
    ip_pc,            \* no call, inside the loop, or returned
    ip_b0,            \* the argument base of the call
    ip_e0,            \* the argument exp of the call
    ip_base,          \* the variable base
    ip_exp,           \* the variable exp
    ip_result,        \* the variable result
    ip_n,             \* iterations of the loop so far
    \* ---- user_mem_check (kern/pmap.c) ----
    um_va,            \* the argument va of the last call
    um_len,           \* the argument len
    um_perm,          \* the argument perm
    um_res,           \* what the call returned
    \* ---- the locks, as the kernel's paths take and release them ----
    lk_holder,        \* per lock: the processor holding it, or NULL
    lk_todo,          \* per processor: the lock operations still ahead
    \* ---- history of fork, kept for the statements about isolation ----
    g_parent,         \* the live environment whose fork made slot i
    snapP,            \* what the parent read when its fork returned
    snapC,            \* what the child read when that fork returned
    dirtyP,           \* pages the parent has stored to since
    dirtyC            \* pages the child has stored to since

\* the locks as taken along whole kernel entries (specification SpecLocks)
lvars == <<lk_holder, lk_todo>>

\* the IPC fields and the history of the IPC system calls
ivars == <<env_ipc_from, env_ipc_value, env_ipc_dstva, env_ipc_perm, reg_eax,
           snd, unm, g_dst, nsucc, nipc>>

\* identities and the history of their resolution
evars == <<env_gen, par_gen, stale, e_res>>

\* the interrupt an environment sleeps for, the disk, the disk's users
wvars == <<env_wait_trap, ide_busy, ide_irq, w_pc, nide>>

\* the functions on numbers
nvars == <<ip_pc, ip_b0, ip_e0, ip_base, ip_exp, ip_result, ip_n,
           um_va, um_len, um_perm, um_res>>

\* the IPC fields of a fresh environment: nothing received, no destination
IpcIdle ==
    /\ env_ipc_from = [i \in EnvSlots |-> NULL]
    /\ env_ipc_value = [i \in EnvSlots |-> 0]
    /\ env_ipc_dstva = [i \in EnvSlots |-> AboveUTOP]
    /\ env_ipc_perm = [i \in EnvSlots |-> PermNone]
    /\ reg_eax = [i \in EnvSlots |-> 0]
    /\ snd = NoSend
    /\ unm = NoUnmap
    /\ g_dst = [i \in EnvSlots |-> AboveUTOP]
    /\ nsucc = [i \in EnvSlots |-> 0]
    /\ nipc = 0

\* an identity: generation and table index; envid 0 is "the caller"
Envid0 == [g |-> 0, i |-> 0]
NoRes == [cur |-> NULL]

\* the identities after boot: every environment in use is the first
\* occupant of its slot, free slots have env_id 0
EnvidIdle ==
    /\ env_gen = [i \in EnvSlots |-> IF env_status[i] = ENV_FREE THEN 0 ELSE 1]
    /\ par_gen = [i \in EnvSlots |-> IF env_parent_id[i] = NULL THEN 0 ELSE 1]
    /\ stale = {}
    /\ e_res = NoRes

\* the trap numbers passed to sys_wait_trap: IRQ_OFFSET + IRQ_IDE, and one
\* that the switch of sys_wait_trap rejects
IRQ_OFFSET == 32
IRQ_IDE == 14
IRQ_KBD == 1
TrapIde == IRQ_OFFSET + IRQ_IDE
TrapOther == IRQ_OFFSET + IRQ_KBD

\* the user of the disk is outside ide_read/ide_write, is at the inb(0x1F7)
\* of ide_wait_ready, or has found the device busy and not yet made the
\* system call
WIdle == "idle"
WPoll == "poll"
WCall == "call"

\* env_alloc leaves env_wait_trap = -1; the disk is idle
WaitIdle ==
    /\ env_wait_trap = [i \in EnvSlots |-> NULL]
    /\ ide_busy = FALSE
    /\ ide_irq = FALSE
    /\ w_pc = [i \in EnvSlots |-> WIdle]
    /\ nide = 0

\* where a call of _ipow is
IpNone == "none"
IpLoop == "loop"
IpDone == "done"

\* the permission bits of a page table entry
PTE_P == "PTE_P"
PTE_W == "PTE_W"
PTE_U == "PTE_U"

\* no call of _ipow or of user_mem_check has been made
NumIdle ==
    /\ ip_pc = IpNone
    /\ ip_b0 = 0
    /\ ip_e0 = 0
    /\ ip_base = 0
    /\ ip_exp = 0
    /\ ip_result = 0
    /\ ip_n = 0
    /\ um_va = 0
    /\ um_len = 0
    /\ um_perm = {}
    /\ um_res = 0

\* the kernel's own state
kcore == <<env_status, env_parent_id, env_ipc_recving, curenv, cpu_status,
           env_lock, pc, scan_begin, scan_cur, scan_cnt, since, steady,
           ivars, evars, wvars, nvars>>

kvars == <<env_status, env_parent_id, env_ipc_recving, curenv, cpu_status,
           env_lock, pc, scan_begin, scan_cur, scan_cnt, since, steady,
           lvars, ivars, evars, wvars, nvars>>

\* the part of kvars that the user-level specifications leave alone
ksched == <<env_ipc_recving, curenv, cpu_status, env_lock, pc,
            scan_begin, scan_cur, scan_cnt, since, steady, lvars, ivars,
            evars, wvars, nvars>>

mvars == <<pp_ref, pp_link, page_free_list, frame_data, env_pgdir, pgdir,
           pte, kpanic>>

uvars == <<env_free_list, env_pgfault_upcall, upc, uva, uchild, uval,
           nforks>>

gvars == <<g_parent, snapP, snapC, dirtyP, dirtyC>>

pvars == <<ppc, p_pp, p_env, p_va, p_fresh, p_k, nops, p_same>>

\* everything the kernel scheduling actions leave alone
uservars == <<mvars, uvars, gvars, pvars, lvars, ivars, evars, wvars, nvars>>

\* what the kernel's _env_free leaves alone of the user-level state
kfree_keeps == <<env_pgfault_upcall, upc, uva, uchild, uval, nforks, gvars,
                 pvars, lvars, ivars, evars, wvars, nvars>>

vars == <<kvars, mvars, uvars, gvars, pvars>>

(***************************************************************************)
(* Kernel: helpers                                                         *)
(***************************************************************************)
\* ENVX(envid): the table index of an environment id
ENVX(e) == e % NENV

Min(a, b) == IF a < b THEN a ELSE b

\* the processor returns to user mode running curenv
PcUser == "user"
\* hlt loop of sched_halt
PcHalted == "halted"
\* trap() found curenv DYING, about to env_free it
PcDying == "dying"
\* trap_dispatch: the trap's handler is about to run
PcDispatch == "dispatch"
\* at spin_lock(&env_lock) just before sched_yield()
PcYieldLock == "yield_lock"
\* inside sched_yield's do-while loop, env_lock held
PcScan == "scan"
\* sched_yield's loop has ended
PcAfterScan == "after_scan"
\* the system call has returned into trap(), env_lock not held
PcRet == "ret"
\* sched_halt found no environment at all: kernel monitor, forever
PcMonitor == "monitor"
\* env_run was called on envs[NENV], memory past the table
PcWild == "wild"

PcValues == {PcUser, PcHalted, PcDying, PcDispatch, PcYieldLock, PcScan,
             PcAfterScan, PcRet, PcMonitor, PcWild}

TypeOK ==
    /\ env_status \in [EnvSlots -> EnvStatus]
    /\ env_parent_id \in [EnvSlots -> EnvSlots \cup {NULL}]
    /\ env_ipc_recving \in [EnvSlots -> BOOLEAN]
    /\ curenv \in [CPUs -> EnvSlots \cup {NULL, NENV}]
    /\ cpu_status \in [CPUs -> {CPU_STARTED, CPU_HALTED}]
    /\ env_lock \in CPUs \cup {NULL}
    /\ pc \in [CPUs -> PcValues]
    /\ scan_begin \in [CPUs -> 0 .. NENV]
    /\ scan_cur \in [CPUs -> 0 .. NENV]
    /\ scan_cnt \in [CPUs -> 0 .. (NENV + 1)]
    /\ since \in [EnvSlots -> 0 .. NENV]
    /\ steady \in BOOLEAN

(***************************************************************************)
(* Physical memory: the frame allocator and the page tables (kern/pmap.c). *)
(* The operators take the memory as a record m and return the new memory,  *)
(* so that one pmap_lock section, or one system call, is one step.         *)
(***************************************************************************)
Frames == 0 .. (NFRAMES - 1)
Values == 0 .. MaxVal

\* negative status codes of inc/error.h
E_BAD_ENV == 0 - 2
E_INVAL == 0 - 3
E_NO_MEM == 0 - 4
E_NO_FREE_ENV == 0 - 5
E_IPC_NOT_RECV == 0 - 7
E_FAULT == 0 - 6

\* The user pages of the model.  PFTEMP is pgfault's staging page, UTEXT a
\* read-only page of the program, UDATA a writable page of the program
\* (data or normal stack, fork treats them alike) and UXSTACK the page of
\* the user exception stack (UXSTACKTOP - PGSIZE).
PFTEMP == "PFTEMP"
UTEXT == "UTEXT"
UDATA == "UDATA"
UXSTACK == "UXSTACK"
\* fork's loop walks the addresses below USTACKTOP in ascending order
\* a loop of fork that runs up to UXSTACKTOP
BelowUSTACKTOP_and_xstack == <<PFTEMP, UTEXT, UDATA, UXSTACK>>

BelowUSTACKTOP == <<PFTEMP, UTEXT, UDATA>>
AllPages == BelowUSTACKTOP \o <<UXSTACK>>
VAs == {AllPages[i] : i \in 1 .. Len(AllPages)}
\* the pages user code stores to
StorePages == {UTEXT, UDATA}

\* PDX(va): the page directory entry, hence the page table, that covers va
PD_TEMP == "pd_temp"
PD_PROG == "pd_prog"
PD_STACK == "pd_stack"
PDX(va) ==
    IF va = PFTEMP THEN PD_TEMP
    ELSE IF va \in {UTEXT, UDATA} THEN PD_PROG
    ELSE PD_STACK
PDSeq == <<PD_TEMP, PD_PROG, PD_STACK>>
PDXs == {PDSeq[i] : i \in 1 .. Len(PDSeq)}

\* a page table entry: the frame (NULL when PTE_P is clear), PTE_W, PTE_COW
NoPte == [f |-> NULL, w |-> FALSE, cow |-> FALSE]
MkPte(pp, perm) == [f |-> pp, w |-> perm.w, cow |-> perm.cow]
PermOf(e) == [w |-> e.w, cow |-> e.cow]
\* PTE_W | PTE_U | PTE_P, and the same with PTE_COW left on
PermW_keeps_cow == [w |-> TRUE, cow |-> TRUE]
PermW == [w |-> TRUE, cow |-> FALSE]
PteValues == {NoPte} \cup
             [f : Frames, w : BOOLEAN, cow : BOOLEAN]

\* pp_ref is a uint16_t
RefMod == 65536

\* the memory as one record
M == [pp_ref |-> pp_ref, pp_link |-> pp_link,
      page_free_list |-> page_free_list, frame_data |-> frame_data,
      env_pgdir |-> env_pgdir, pgdir |-> pgdir, pte |-> pte,
      kpanic |-> kpanic]

SetMem(m) ==
    /\ pp_ref' = m.pp_ref
    /\ pp_link' = m.pp_link
    /\ page_free_list' = m.page_free_list
    /\ frame_data' = m.frame_data
    /\ env_pgdir' = m.env_pgdir
    /\ pgdir' = m.pgdir
    /\ pte' = m.pte
    /\ kpanic' = m.kpanic

MemTypeOK ==
    /\ pp_ref \in [Frames -> 0 .. (RefMod - 1)]
    /\ pp_link \in [Frames -> Frames \cup {NULL}]
    /\ page_free_list \in Frames \cup {NULL}
    /\ frame_data \in [Frames -> Values]
    /\ env_pgdir \in [EnvSlots -> Frames \cup {NULL}]
    /\ pgdir \in [EnvSlots -> [PDXs -> Frames \cup {NULL}]]
    /\ pte \in [EnvSlots -> [VAs -> PteValues]]
    /\ kpanic \in BOOLEAN

\* _page_alloc(alloc_flags): take the head of page_free_list, NULL if the
\* list is empty; the frame is zeroed with ALLOC_ZERO.
_page_alloc(m, alloc_zero) ==
    LET newpage == m.page_free_list
    IN IF newpage = NULL
       THEN [m |-> m, pp |-> NULL]
       ELSE [m |-> [m EXCEPT !.page_free_list = m.pp_link[newpage],
                             !.pp_link[newpage] = NULL,
                             !.frame_data[newpage] =
                                 IF alloc_zero THEN 0 ELSE @],
             pp |-> newpage]

\* _page_free(pp): assert(pp->pp_ref == 0); panic if pp->pp_link != NULL;
\* else push pp on page_free_list.
_page_free(m, pp) ==
    IF m.pp_ref[pp] # 0 \/ m.pp_link[pp] # NULL
    THEN [m EXCEPT !.kpanic = TRUE]
    ELSE [m EXCEPT !.pp_link[pp] = m.page_free_list,
                   !.page_free_list = pp]

\* _page_decref(pp): if (--pp->pp_ref == 0) _page_free(pp);
_page_decref(m, pp) ==
    LET m1 == [m EXCEPT !.pp_ref[pp] = (@ + RefMod - 1) % RefMod]
    IN IF m1.pp_ref[pp] = 0 THEN _page_free(m1, pp) ELSE m1

\* _pgdir_walk(pgdir, va, create): slot is TRUE when a page table covers va
\* on return; with create a missing page table is allocated (zeroed,
\* pp_ref++) and entered in the page directory.
_pgdir_walk(m, e, va, create) ==
    IF m.pgdir[e][PDX(va)] # NULL
    THEN [m |-> m, slot |-> TRUE]
    ELSE IF ~create
    THEN [m |-> m, slot |-> FALSE]
    ELSE LET a == _page_alloc(m, TRUE)
         IN IF a.pp = NULL
            THEN [m |-> m, slot |-> FALSE]
            ELSE [m |-> [a.m EXCEPT !.pp_ref[a.pp] = (@ + 1) % RefMod,
                                    !.pgdir[e][PDX(va)] = a.pp],
                  slot |-> TRUE]

\* _page_lookup(pgdir, va, 0): the frame mapped at va, or NULL
_page_lookup(m, e, va) ==
    IF m.pgdir[e][PDX(va)] = NULL THEN NULL ELSE m.pte[e][va].f

\* _page_remove(pgdir, va): nothing if no frame is mapped at va; else
\* *pte = 0; _page_decref(pp);
_page_remove(m, e, va) ==
    LET pp == _page_lookup(m, e, va)
    IN IF pp = NULL
       THEN m
       ELSE _page_decref([m EXCEPT !.pte[e][va] = NoPte], pp)

\* a page_insert that does not count the new mapping
\* page_insert: pp->pp_ref++
page_insert_incref(m, pp) == [m EXCEPT !.pp_ref[pp] = (@ + 1) % RefMod]

\* page_insert: if (*pte & PTE_P) _page_remove(pgdir, va)
page_insert_displace(m, e, va) ==
    IF m.pte[e][va].f # NULL THEN _page_remove(m, e, va) ELSE m

\* a page_insert that removes the existing mapping before it counts the
\* new reference
page_insert_remove_first(m, e, pp, va, perm) ==
    LET wk == _pgdir_walk(m, e, va, TRUE)
    IN IF ~wk.slot
       THEN [m |-> m, r |-> E_NO_MEM]
       ELSE LET m1 == page_insert_displace(wk.m, e, va)
                m2 == page_insert_incref(m1, pp)
            IN [m |-> [m2 EXCEPT !.pte[e][va] = MkPte(pp, perm)],
                r |-> 0]

page_insert_no_incref(m, e, pp, va, perm) ==
    LET wk == _pgdir_walk(m, e, va, TRUE)
    IN IF ~wk.slot
       THEN [m |-> m, r |-> E_NO_MEM]
       ELSE LET m2 == IF wk.m.pte[e][va].f # NULL
                      THEN _page_remove(wk.m, e, va)
                      ELSE wk.m
            IN [m |-> [m2 EXCEPT !.pte[e][va] = MkPte(pp, perm)],
                r |-> 0]

\* page_insert(pgdir, pp, va, perm): -E_NO_MEM if the page table cannot be
\* allocated; else pp->pp_ref++, then remove a present mapping at va, then
\* *pte = page2pa(pp) | perm | PTE_P.
page_insert(m, e, pp, va, perm) ==
    LET wk == _pgdir_walk(m, e, va, TRUE)
    IN IF ~wk.slot
       THEN [m |-> m, r |-> E_NO_MEM]
       ELSE LET m1 == page_insert_incref(wk.m, pp)
                m2 == page_insert_displace(m1, e, va)
            IN [m |-> [m2 EXCEPT !.pte[e][va] = MkPte(pp, perm)],
                r |-> 0]

(***************************************************************************)
(* System calls on address spaces (kern/syscall.c) and the allocation and  *)
(* release of environments (kern/env.c), on the memory record.  e, srce    *)
(* and dste are the environments the envid arguments resolve to.           *)
(***************************************************************************)
\* sys_page_alloc(envid, va, perm): page_alloc(ALLOC_ZERO), page_insert;
\* the frame is freed again when page_insert fails.
sys_page_alloc(m, e, va, perm) ==
    LET a == _page_alloc(m, TRUE)
    IN IF a.pp = NULL
       THEN [m |-> m, r |-> E_NO_MEM]
       ELSE LET i == page_insert(a.m, e, a.pp, va, perm)
            IN IF i.r < 0
               THEN [m |-> _page_free(a.m, a.pp), r |-> i.r]
               ELSE i

\* sys_page_map(srcenvid, srcva, dstenvid, dstva, perm): -E_INVAL if srcva
\* is not mapped in the source, or perm has PTE_W and the source mapping
\* is read-only; else page_insert of the source's frame.
sys_page_map(m, srce, srcva, dste, dstva, perm) ==
    LET pp == _page_lookup(m, srce, srcva)
    IN IF pp = NULL
       THEN [m |-> m, r |-> E_INVAL]
       ELSE IF perm.w /\ ~m.pte[srce][srcva].w
       THEN [m |-> m, r |-> E_INVAL]
       ELSE page_insert(m, dste, pp, dstva, perm)

\* sys_page_unmap(envid, va): page_remove
sys_page_unmap(m, e, va) == [m |-> _page_remove(m, e, va), r |-> 0]

\* env_setup_vm(e): a zeroed frame becomes the page directory, pp_ref++
env_setup_vm(m, e) ==
    LET a == _page_alloc(m, TRUE)
    IN IF a.pp = NULL
       THEN [m |-> m, r |-> E_NO_MEM]
       ELSE [m |-> [a.m EXCEPT !.pp_ref[a.pp] = (@ + 1) % RefMod,
                               !.env_pgdir[e] = a.pp],
             r |-> 0]

\* _env_free(e), the memory part: every mapped user page is removed, then
\* the page table that held it is released, region after region in
\* ascending order, and last the page directory.
RECURSIVE RemovePages(_, _, _)
RemovePages(m, e, pages) ==
    IF pages = <<>>
    THEN m
    ELSE RemovePages(_page_remove(m, e, Head(pages)), e, Tail(pages))

PagesOf(pdx) == SelectSeq(AllPages, LAMBDA va : PDX(va) = pdx)

RECURSIVE FreeRegions(_, _, _)
FreeRegions(m, e, pds) ==
    IF pds = <<>>
    THEN m
    ELSE LET pdx == Head(pds)
             pt == m.pgdir[e][pdx]
         IN IF pt = NULL
            THEN FreeRegions(m, e, Tail(pds))
            ELSE LET m1 == RemovePages(m, e, PagesOf(pdx))
                     m2 == [m1 EXCEPT !.pgdir[e][pdx] = NULL]
                 IN FreeRegions(_page_decref(m2, pt), e, Tail(pds))

env_free_mem(m, e) ==
    LET m1 == FreeRegions(m, e, PDSeq)
        pd == m1.env_pgdir[e]
    IN _page_decref([m1 EXCEPT !.env_pgdir[e] = NULL], pd)

(***************************************************************************)
(* Kernel: Init.  The first environment (slot 0) runs on the boot          *)
(* processor and has forked k-1 children, which are RUNNABLE; the other    *)
(* processors found nothing to run yet and sit in sched_halt.              *)
(***************************************************************************)
KInit ==
    /\ \E k \in 1 .. NENV :
         /\ env_status = [i \in EnvSlots |->
                            IF i = 0 THEN ENV_RUNNING
                            ELSE IF i < k THEN ENV_RUNNABLE ELSE ENV_FREE]
         /\ env_parent_id = [i \in EnvSlots |->
                            IF i = 0 \/ i >= k THEN NULL ELSE 0]
    /\ env_ipc_recving = [i \in EnvSlots |-> FALSE]
    /\ curenv = [c \in CPUs |-> IF c = 0 THEN 0 ELSE NULL]
    /\ cpu_status = [c \in CPUs |-> IF c = 0 THEN CPU_STARTED ELSE CPU_HALTED]
    /\ env_lock = NULL
    /\ pc = [c \in CPUs |-> IF c = 0 THEN PcUser ELSE PcHalted]
    /\ scan_begin = [c \in CPUs |-> 0]
    /\ scan_cur = [c \in CPUs |-> 0]
    /\ scan_cnt = [c \in CPUs |-> 0]
    /\ since = [i \in EnvSlots |-> 0]
    /\ steady = TRUE
    /\ lk_holder = [l \in Locks |-> NULL]
    /\ lk_todo = [c \in CPUs |-> <<>>]
    /\ IpcIdle
    /\ EnvidIdle
    /\ WaitIdle
    /\ NumIdle

(***************************************************************************)
(* Kernel: env_run, env_free, sched_yield                                  *)
(***************************************************************************)
\* sched_yield does not return: its locals begin and cur are gone once it
\* has called env_run or sched_halt.
LeaveSchedYield(c) ==
    /\ scan_begin' = [scan_begin EXCEPT ![c] = 0]
    /\ scan_cur' = [scan_cur EXCEPT ![c] = 0]
    /\ scan_cnt' = [scan_cnt EXCEPT ![c] = 0]

\* History kept for the statement about round-robin fairness: a call of
\* sched_yield ends by dispatching d (NULL: by halting); every environment
\* it left RUNNABLE has been passed over once more.
YieldEnds(d) ==
    /\ since' = IF steady
                THEN [e \in EnvSlots |->
                        IF e = d THEN 0
                        ELSE IF env_status[e] = ENV_RUNNABLE
                        THEN Min(since[e] + 1, NENV)
                        ELSE since[e]]
                ELSE since
    /\ UNCHANGED steady

\* an environment blocks, exits, is destroyed or has its status set: the
\* set of environments that are runnable is no longer the initial one
Unsteady ==
    /\ since' = [e \in EnvSlots |-> 0]
    /\ steady' = FALSE

\* env_run whose env_pop_tf does not release env_lock
env_run_keeps_lock(c, e) ==
    /\ LET st == IF curenv[c] # NULL /\ env_status[curenv[c]] = ENV_RUNNING
                 THEN [env_status EXCEPT ![curenv[c]] = ENV_RUNNABLE]
                 ELSE env_status
       IN env_status' = [st EXCEPT ![e] = ENV_RUNNING]
    /\ curenv' = [curenv EXCEPT ![c] = e]
    /\ env_lock' = c
    /\ pc' = [pc EXCEPT ![c] = PcUser]
    /\ LeaveSchedYield(c)
    /\ UNCHANGED <<env_parent_id, env_ipc_recving, cpu_status>>

\* env_run(e) followed by env_pop_tf: the previous curenv, if still RUNNING,
\* goes back to RUNNABLE; e becomes curenv and RUNNING; env_pop_tf releases
\* env_lock and returns to user mode.
env_run(c, e) ==
    /\ LET st == IF curenv[c] # NULL /\ env_status[curenv[c]] = ENV_RUNNING
                 THEN [env_status EXCEPT ![curenv[c]] = ENV_RUNNABLE]
                 ELSE env_status
       IN env_status' = [st EXCEPT ![e] = ENV_RUNNING]
    /\ curenv' = [curenv EXCEPT ![c] = e]
    /\ env_lock' = NULL
    /\ pc' = [pc EXCEPT ![c] = PcUser]
    /\ LeaveSchedYield(c)
    /\ UNCHANGED <<env_parent_id, env_ipc_recving, cpu_status>>

\* sched_yield's first two statements:
\*   begin = curenv == NULL ? 0 : ENVX(curenv->env_id) + 1;  cur = begin;
SchedBegin(cv) == IF cv = NULL THEN 0 ELSE ENVX(cv) + 1

\* The processor enters sched_yield holding env_lock; cv is its curenv then.
EnterSchedYield(c, cv) ==
    /\ scan_begin' = [scan_begin EXCEPT ![c] = SchedBegin(cv)]
    /\ scan_cur' = [scan_cur EXCEPT ![c] = SchedBegin(cv)]
    /\ scan_cnt' = [scan_cnt EXCEPT ![c] = 0]
    /\ pc' = [pc EXCEPT ![c] = PcScan]
    /\ env_lock' = c

\* cur = (cur + 1) % NENV
NextCur(cur) == (cur + 1) % NENV

\* One turn of the do-while loop that does not dispatch:
\*   cur = (cur + 1) % NENV; } while (cur != begin);
ScanAdvance(c) ==
    /\ scan_cur' = [scan_cur EXCEPT ![c] = NextCur(scan_cur[c])]
    /\ scan_cnt' = [scan_cnt EXCEPT ![c] = Min(scan_cnt[c] + 1, NENV + 1)]
    /\ pc' = [pc EXCEPT ![c] =
                IF NextCur(scan_cur[c]) # scan_begin[c] THEN PcScan
                ELSE PcAfterScan]
    /\ UNCHANGED <<env_status, env_parent_id, env_ipc_recving, curenv,
                   cpu_status, env_lock, scan_begin, since, steady>>

\* The status the loop tests in a slot of the table.
Dispatchable(st) == st = ENV_RUNNABLE

\* if (envs[cur].env_status == ENV_RUNNABLE) env_run(envs + cur);
ScanInTable(c) ==
    /\ ~kpanic
    /\ pc[c] = PcScan
    /\ env_lock = c
    /\ scan_cur[c] < NENV
    /\ IF Dispatchable(env_status[scan_cur[c]])
       THEN env_run(c, scan_cur[c]) /\ YieldEnds(scan_cur[c])
       ELSE ScanAdvance(c)
    /\ UNCHANGED uservars

\* cur == NENV (curenv sits in the last slot): envs[NENV] is read past the
\* end of the table.  The word found there is anything: either it does not
\* compare equal to ENV_RUNNABLE and the loop goes on, or it does and
\* env_run is entered on memory that is no environment.
ScanPastTable(c) ==
    /\ ~kpanic
    /\ pc[c] = PcScan
    /\ env_lock = c
    /\ scan_cur[c] >= NENV
    /\ \/ ScanAdvance(c)
       \/ /\ pc' = [pc EXCEPT ![c] = PcWild]
          /\ curenv' = [curenv EXCEPT ![c] = NENV]
          /\ \E held \in BOOLEAN : env_lock' = IF held THEN c ELSE NULL
          /\ LeaveSchedYield(c)
          /\ Unsteady
          /\ UNCHANGED <<env_status, env_parent_id, env_ipc_recving,
                         cpu_status>>
    /\ UNCHANGED uservars

\* sched_halt's test: is there any environment at all
AnyEnvLeft ==
    \E i \in EnvSlots :
        env_status[i] \in {ENV_RUNNABLE, ENV_RUNNING, ENV_DYING,
                           ENV_NOT_RUNNABLE}

\* sched_halt(): the monitor when the table is empty; else curenv = NULL,
\* cpu_status = CPU_HALTED, spin_unlock(&env_lock), hlt.
sched_halt(c) ==
    /\ env_lock = c
    /\ IF AnyEnvLeft
       THEN /\ curenv' = [curenv EXCEPT ![c] = NULL]
            /\ cpu_status' = [cpu_status EXCEPT ![c] = CPU_HALTED]
            /\ env_lock' = NULL
            /\ pc' = [pc EXCEPT ![c] = PcHalted]
       ELSE /\ pc' = [pc EXCEPT ![c] = PcMonitor]
            /\ UNCHANGED <<curenv, cpu_status, env_lock>>
    /\ LeaveSchedYield(c)
    /\ UNCHANGED <<env_status, env_parent_id, env_ipc_recving>>

\* After the loop:
\*   if (curenv && envs[ENVX(curenv->env_id)].env_status == ENV_RUNNING)
\*       env_run(curenv);
\*   sched_halt();
AfterScan(c) ==
    /\ ~kpanic
    /\ pc[c] = PcAfterScan
    /\ env_lock = c
    /\ IF curenv[c] # NULL /\ env_status[ENVX(curenv[c])] = ENV_RUNNING
       THEN env_run(c, curenv[c]) /\ YieldEnds(curenv[c])
       ELSE sched_halt(c) /\ YieldEnds(NULL)
    /\ UNCHANGED uservars

(***************************************************************************)
(* Kernel: traps                                                           *)
(***************************************************************************)
\* A trap from user mode (timer interrupt or int $T_SYSCALL).  trap() reads
\* curenv->env_status, without env_lock, to see whether curenv is a zombie.
Trap(c) ==
    /\ ~kpanic
    /\ pc[c] = PcUser
    /\ pc' = [pc EXCEPT ![c] =
                IF env_status[curenv[c]] = ENV_DYING THEN PcDying
                ELSE PcDispatch]
    /\ UNCHANGED <<env_status, env_parent_id, env_ipc_recving, curenv,
                   cpu_status, env_lock, scan_begin, scan_cur, scan_cnt,
                   since, steady>>
    /\ UNCHANGED uservars

\* The timer interrupt that wakes a halted processor: trap() marks it
\* started; trap_dispatch goes to spin_lock(&env_lock); sched_yield().
TimerHalted(c) ==
    /\ ~kpanic
    /\ pc[c] = PcHalted
    /\ cpu_status' = [cpu_status EXCEPT ![c] = CPU_STARTED]
    /\ pc' = [pc EXCEPT ![c] = PcYieldLock]
    /\ UNCHANGED <<env_status, env_parent_id, env_ipc_recving, curenv,
                   env_lock, scan_begin, scan_cur, scan_cnt, since, steady>>
    /\ UNCHANGED uservars

\* trap(): env_free(curenv); curenv = NULL;  (env_free takes and releases
\* env_lock itself), then spin_lock(&env_lock); sched_yield();
\* _env_free(e) as the kernel calls it: the frames of e go back to the
\* allocator and the slot to env_free_list.  An environment that has no page
\* directory any more was freed before: the walk of its page directory
\* faults in the kernel.
KEnvFree(e) ==
    /\ IF env_pgdir[e] = NULL
       THEN /\ SetMem([M EXCEPT !.kpanic = TRUE])
            /\ UNCHANGED env_free_list
       ELSE /\ SetMem(env_free_mem(M, e))
            /\ env_free_list' = <<e>> \o env_free_list
    /\ UNCHANGED kfree_keeps

\* _env_destroy(e): e is RUNNING on a processor other than the caller's
RunsElsewhere(c, e) == env_status[e] = ENV_RUNNING /\ curenv[c] # e

DyingFree(c) ==
    /\ ~kpanic
    /\ pc[c] = PcDying
    /\ env_lock = NULL
    /\ env_status' = [env_status EXCEPT ![curenv[c]] = ENV_FREE]
    /\ curenv' = [curenv EXCEPT ![c] = NULL]
    /\ pc' = [pc EXCEPT ![c] = PcYieldLock]
    /\ Unsteady
    /\ UNCHANGED <<env_parent_id, env_ipc_recving, cpu_status, env_lock,
                   scan_begin, scan_cur, scan_cnt>>
    /\ KEnvFree(curenv[c])

\* spin_lock(&env_lock); sched_yield();  reached from the timer interrupt
\* (trap_dispatch), from sys_yield and after a zombie was freed.
YieldLock(c) ==
    /\ ~kpanic
    /\ pc[c] \in {PcDispatch, PcYieldLock}
    /\ env_lock = NULL
    /\ EnterSchedYield(c, curenv[c])
    /\ UNCHANGED <<env_status, env_parent_id, env_ipc_recving, curenv,
                   cpu_status, since, steady>>
    /\ UNCHANGED uservars

\* The end of trap(), after a system call returned:
\*   spin_lock(&env_lock);
\*   if (curenv && curenv->env_status == ENV_RUNNING) env_run(curenv);
\*   else sched_yield();
ResumeCheck(c) == curenv[c] # NULL /\ env_status[curenv[c]] = ENV_RUNNING

TrapTail(c) ==
    /\ ~kpanic
    /\ pc[c] = PcRet
    /\ env_lock = NULL
    /\ IF ResumeCheck(c)
       THEN env_run(c, curenv[c])
       ELSE /\ EnterSchedYield(c, curenv[c])
            /\ UNCHANGED <<env_status, env_parent_id, env_ipc_recving,
                           curenv, cpu_status>>
    /\ UNCHANGED <<since, steady>>
    /\ UNCHANGED uservars

(***************************************************************************)
(* Kernel: system calls.  Each holds env_lock from its spin_lock to its    *)
(* spin_unlock, so its body is one step; it returns into trap() with the   *)
(* lock released.                                                          *)
(***************************************************************************)
\* sys_ipc_recv(dstva): curenv->env_ipc_recving = 1;
\* curenv->env_status = ENV_NOT_RUNNABLE; spin_unlock; return 0.
sys_ipc_recv(c) ==
    /\ ~kpanic
    /\ pc[c] = PcDispatch
    /\ env_lock = NULL
    /\ env_ipc_recving' = [env_ipc_recving EXCEPT ![curenv[c]] = TRUE]
    /\ env_status' = [env_status EXCEPT ![curenv[c]] = ENV_NOT_RUNNABLE]
    /\ pc' = [pc EXCEPT ![c] = PcRet]
    /\ Unsteady
    /\ UNCHANGED <<env_parent_id, curenv, cpu_status, env_lock,
                   scan_begin, scan_cur, scan_cnt>>
    /\ UNCHANGED uservars

\* _envid2env(envid, &e, checkperm): -E_BAD_ENV for a free slot, and, with
\* checkperm, unless e is curenv or a child of curenv.
envid2env_ok(c, e, checkperm) ==
    /\ env_status[e] # ENV_FREE
    /\ checkperm => (e = curenv[c] \/ env_parent_id[e] = curenv[c])

\* sys_ipc_try_send(envid, value, srcva >= UTOP, perm): no page is sent.
sys_ipc_try_send(c, e) ==
    /\ ~kpanic
    /\ pc[c] = PcDispatch
    /\ env_lock = NULL
    /\ IF envid2env_ok(c, e, FALSE) /\ env_ipc_recving[e]
       THEN /\ env_ipc_recving' = [env_ipc_recving EXCEPT ![e] = FALSE]
            /\ env_status' = [env_status EXCEPT ![e] = ENV_RUNNABLE]
            /\ Unsteady
       ELSE UNCHANGED <<env_ipc_recving, env_status, since, steady>>
    /\ pc' = [pc EXCEPT ![c] = PcRet]
    /\ UNCHANGED <<env_parent_id, curenv, cpu_status, env_lock,
                   scan_begin, scan_cur, scan_cnt>>
    /\ UNCHANGED uservars

\* sys_env_destroy(envid) with _env_destroy(e):
\*   e RUNNING on another processor: e->env_status = ENV_DYING; return;
\*   else _env_free(e); if (curenv == e) { curenv = NULL; sched_yield(); }
sys_env_destroy(c, e) ==
    /\ ~kpanic
    /\ pc[c] = PcDispatch
    /\ env_lock = NULL
    /\ IF ~envid2env_ok(c, e, TRUE)
       THEN /\ pc' = [pc EXCEPT ![c] = PcRet]
            /\ UNCHANGED <<env_status, curenv, env_lock,
                           scan_begin, scan_cur, scan_cnt, since, steady>>
            /\ UNCHANGED uservars
       ELSE IF RunsElsewhere(c, e)
       THEN /\ env_status' = [env_status EXCEPT ![e] = ENV_DYING]
            /\ pc' = [pc EXCEPT ![c] = PcRet]
            /\ Unsteady
            /\ UNCHANGED <<curenv, env_lock, scan_begin, scan_cur, scan_cnt>>
            /\ UNCHANGED uservars
       ELSE IF curenv[c] = e
       THEN /\ env_status' = [env_status EXCEPT ![e] = ENV_FREE]
            /\ curenv' = [curenv EXCEPT ![c] = NULL]
            /\ EnterSchedYield(c, NULL)
            /\ Unsteady
            /\ KEnvFree(e)
       ELSE /\ env_status' = [env_status EXCEPT ![e] = ENV_FREE]
            /\ pc' = [pc EXCEPT ![c] = PcRet]
            /\ Unsteady
            /\ UNCHANGED <<curenv, env_lock, scan_begin, scan_cur, scan_cnt>>
            /\ KEnvFree(e)
    /\ UNCHANGED <<env_parent_id, env_ipc_recving, cpu_status>>

\* the values of 'status' that sys_env_set_status accepts
SettableStatus == {ENV_RUNNABLE, ENV_NOT_RUNNABLE}

\* sys_env_set_status(envid, status):
\*   spin_lock(&env_lock);
\*   if ((err = _envid2env(envid, &env, 1)) < 0) return err;
\*   env->env_status = status; spin_unlock(&env_lock); return 0;
\* The error return leaves env_lock held by this processor.
sys_env_set_status(c, e, status) ==
    /\ ~kpanic
    /\ pc[c] = PcDispatch
    /\ env_lock = NULL
    /\ IF ~envid2env_ok(c, e, TRUE)
       THEN /\ env_lock' = c
            /\ UNCHANGED <<env_status, since, steady>>
       ELSE /\ env_status' = [env_status EXCEPT ![e] = status]
            /\ Unsteady
            /\ UNCHANGED env_lock
    /\ pc' = [pc EXCEPT ![c] = PcRet]
    /\ UNCHANGED <<env_parent_id, env_ipc_recving, curenv, cpu_status,
                   scan_begin, scan_cur, scan_cnt>>
    /\ UNCHANGED uservars

(***************************************************************************)
(* Kernel: the specification                                               *)
(***************************************************************************)
\* the steps of processor c
KStep(c) ==
    \/ Trap(c)
    \/ TimerHalted(c)
    \/ DyingFree(c)
    \/ YieldLock(c)
    \/ ScanInTable(c)
    \/ ScanPastTable(c)
    \/ AfterScan(c)
    \/ TrapTail(c)
    \/ sys_ipc_recv(c)
    \/ \E e \in EnvSlots : sys_ipc_try_send(c, e)
    \/ \E e \in EnvSlots : sys_env_destroy(c, e)
    \/ \E e \in EnvSlots, st \in SettableStatus :
          sys_env_set_status(c, e, st)

KNext == \E c \in CPUs : KStep(c)

(***************************************************************************)
(* Environments as user programs: fork, duppage and pgfault of lib/fork.c, *)
(* stores of user code, and exit.  A RUNNABLE environment takes its steps  *)
(* on some processor; every system call is one step.                       *)
(***************************************************************************)
\* user code outside fork and outside the fault handler
UpcRun == "run"
\* duppage is about to map the page uva into the child
UpcDupChild == "dup_child"
\* duppage is about to remap the page uva in the parent itself
UpcDupSelf == "dup_self"
\* fork is about to allocate the child's exception stack
UpcXstack == "xstack"
\* fork is about to set the child's page fault upcall
UpcUpcall == "upcall"
\* fork is about to mark the child RUNNABLE
UpcStatus == "status"
\* fork has returned the child's id to its caller
UpcForkRet == "fork_ret"
\* pgfault has been entered for the page uva
UpcPgfault == "pgfault"
\* pgfault is at its memcpy
UpcPfCopy == "pf_copy"
\* pgfault is about to map the copy at the faulting page
UpcPfMap == "pf_map"
\* pgfault is about to unmap PFTEMP
UpcPfUnmap == "pf_unmap"
\* the faulting store is executed again
UpcRetry == "retry"
\* the environment has stopped in panic()
UpcPanic == "panicked"
UpcValues == {UpcRun, UpcDupChild, UpcDupSelf, UpcXstack, UpcUpcall,
              UpcStatus, UpcForkRet, UpcPgfault, UpcPfCopy, UpcPfMap,
              UpcPfUnmap, UpcRetry, UpcPanic}

\* no address
NoVA == "none"
\* nothing recorded for a page
NoSnap == [va \in StorePages |-> NULL]

UserTypeOK ==
    /\ env_free_list \in Seq(EnvSlots)
    /\ env_pgfault_upcall \in [EnvSlots -> BOOLEAN]
    /\ upc \in [EnvSlots -> UpcValues]
    /\ uva \in [EnvSlots -> VAs \cup {NoVA}]
    /\ uchild \in [EnvSlots -> EnvSlots \cup {NULL}]
    /\ uval \in [EnvSlots -> Values \cup {NULL}]
    /\ nforks \in 0 .. MaxForks
    /\ g_parent \in [EnvSlots -> EnvSlots \cup {NULL}]
    /\ snapP \in [EnvSlots -> [StorePages -> Values \cup {NULL}]]
    /\ snapC \in [EnvSlots -> [StorePages -> Values \cup {NULL}]]
    /\ dirtyP \in [EnvSlots -> SUBSET StorePages]
    /\ dirtyC \in [EnvSlots -> SUBSET StorePages]

\* the environment is executing user code
Live(e) == env_status[e] = ENV_RUNNABLE

\* what environment e reads at page va: the byte, or NULL if va is unmapped
View(m, e, va) ==
    IF _page_lookup(m, e, va) = NULL
    THEN NULL
    ELSE m.frame_data[_page_lookup(m, e, va)]

IndexOf(va) == CHOOSE i \in 1 .. Len(BelowUSTACKTOP) : BelowUSTACKTOP[i] = va

\* fork's loop: the first page at or after index k that is present in e
\* ((uvpd[PDX(addr)] & PTE_P) && (uvpt[PGNUM(addr)] & PTE_P)), 0 if none
NextPresent(m, e, k) ==
    LET S == {i \in k .. Len(BelowUSTACKTOP) :
                 _page_lookup(m, e, BelowUSTACKTOP[i]) # NULL}
    IN IF S = {} THEN 0 ELSE CHOOSE i \in S : \A j \in S : i <= j

\* fork goes on with the loop at index k, or leaves the loop
ForkLoop(m, e, k) ==
    LET i == NextPresent(m, e, k)
    IN IF i = 0
       THEN /\ upc' = [upc EXCEPT ![e] = UpcXstack]
            /\ uva' = [uva EXCEPT ![e] = NoVA]
       ELSE /\ upc' = [upc EXCEPT ![e] = UpcDupChild]
            /\ uva' = [uva EXCEPT ![e] = BelowUSTACKTOP[i]]

\* a duppage that tests only PTE_COW
duppage_shares_cow_only(perm) == perm.cow

\* duppage: the page is shared copy-on-write if (perm & PTE_W) ||
\* (perm & PTE_COW)
duppage_shares(perm) == perm.w \/ perm.cow

\* a duppage that sets PTE_COW and leaves PTE_W as it is
duppage_perm_keeps_w(perm) == [w |-> perm.w, cow |-> TRUE]

\* duppage: perm |= PTE_COW; perm &= ~PTE_W;
duppage_perm(perm) == [w |-> FALSE, cow |-> TRUE]

\* a pgfault that copies nothing into the new page
memcpy_nothing(m, e, dst, src) == m

\* memcpy(PFTEMP, addr, PGSIZE) in environment e
memcpy(m, e, dst, src) ==
    [m EXCEPT !.frame_data[m.pte[e][dst].f] =
                  m.frame_data[m.pte[e][src].f]]

\* fork: set_pgfault_handler(pgfault), which finds the handler installed;
\* envid = sys_exofork(): the head of env_free_list becomes the child,
\* NOT_RUNNABLE, with a page directory of its own; a negative envid is
\* returned to fork's caller.
UFork(e) ==
    /\ Live(e)
    /\ upc[e] = UpcRun
    /\ nforks < MaxForks
    /\ IF env_free_list = <<>>
       THEN UNCHANGED <<kvars, mvars, uvars, gvars>>
       ELSE LET c == Head(env_free_list)
                v == env_setup_vm(M, c)
            IN IF v.r < 0
               THEN UNCHANGED <<kvars, mvars, uvars, gvars>>
               ELSE /\ SetMem(v.m)
                    /\ env_free_list' = Tail(env_free_list)
                    /\ env_status' =
                           [env_status EXCEPT ![c] = ENV_NOT_RUNNABLE]
                    /\ env_parent_id' = [env_parent_id EXCEPT ![c] = e]
                    /\ env_pgfault_upcall' =
                           [env_pgfault_upcall EXCEPT ![c] = FALSE]
                    /\ uchild' = [uchild EXCEPT ![e] = c]
                    /\ nforks' = nforks + 1
                    /\ ForkLoop(v.m, e, 1)
                    /\ UNCHANGED <<ksched, uval, gvars>>
    /\ UNCHANGED pvars

\* duppage, first system call: sys_page_map(0, addr, envid, addr, perm).
\* Its failure ends duppage; fork ignores what duppage returns.
UDupChild(e) ==
    /\ Live(e)
    /\ upc[e] = UpcDupChild
    /\ LET va == uva[e]
           perm == PermOf(pte[e][va])
       IN IF duppage_shares(perm)
          THEN LET r == sys_page_map(M, e, va, uchild[e], va,
                                     duppage_perm(perm))
               IN /\ SetMem(r.m)
                  /\ IF r.r < 0
                     THEN ForkLoop(r.m, e, IndexOf(va) + 1)
                     ELSE /\ upc' = [upc EXCEPT ![e] = UpcDupSelf]
                          /\ uva' = uva
          ELSE LET r == sys_page_map(M, e, va, uchild[e], va, perm)
               IN /\ SetMem(r.m)
                  /\ ForkLoop(r.m, e, IndexOf(va) + 1)
    /\ UNCHANGED <<kvars, env_free_list, env_pgfault_upcall, uchild, uval,
                   nforks, gvars>>
    /\ UNCHANGED pvars

\* duppage, second system call: sys_page_map(0, addr, 0, addr, perm)
UDupSelf(e) ==
    /\ Live(e)
    /\ upc[e] = UpcDupSelf
    /\ LET va == uva[e]
           r == sys_page_map(M, e, va, e, va,
                             duppage_perm(PermOf(pte[e][va])))
       IN /\ SetMem(r.m)
          /\ ForkLoop(r.m, e, IndexOf(va) + 1)
    /\ UNCHANGED <<kvars, env_free_list, env_pgfault_upcall, uchild, uval,
                   nforks, gvars>>
    /\ UNCHANGED pvars

\* fork: sys_page_alloc(envid, UXSTACKTOP - PGSIZE, PTE_W | PTE_U | PTE_P),
\* panic on failure
UXstack(e) ==
    /\ Live(e)
    /\ upc[e] = UpcXstack
    /\ LET r == sys_page_alloc(M, uchild[e], UXSTACK, PermW)
       IN /\ SetMem(r.m)
          /\ upc' = [upc EXCEPT ![e] = IF r.r < 0 THEN UpcPanic
                                       ELSE UpcUpcall]
    /\ UNCHANGED <<kvars, env_free_list, env_pgfault_upcall, uva, uchild,
                   uval, nforks, gvars>>
    /\ UNCHANGED pvars

\* fork: sys_env_set_pgfault_upcall(envid, _pgfault_upcall)
UUpcall(e) ==
    /\ Live(e)
    /\ upc[e] = UpcUpcall
    /\ env_pgfault_upcall' = [env_pgfault_upcall EXCEPT ![uchild[e]] = TRUE]
    /\ upc' = [upc EXCEPT ![e] = UpcStatus]
    /\ UNCHANGED <<kvars, mvars, env_free_list, uva, uchild, uval, nforks,
                   gvars>>
    /\ UNCHANGED pvars

\* the pages of e that fork shares copy-on-write, with the byte e reads
SnapOf(e) ==
    [va \in StorePages |->
        IF _page_lookup(M, e, va) # NULL
           /\ duppage_shares(PermOf(pte[e][va]))
        THEN View(M, e, va)
        ELSE NULL]

\* fork: sys_env_set_status(envid, ENV_RUNNABLE); return envid;
USetStatus(e) ==
    /\ Live(e)
    /\ upc[e] = UpcStatus
    /\ env_status' = [env_status EXCEPT ![uchild[e]] = ENV_RUNNABLE]
    /\ upc' = [upc EXCEPT ![e] = UpcForkRet]
    /\ g_parent' = [g_parent EXCEPT ![uchild[e]] = e]
    /\ snapP' = [snapP EXCEPT ![uchild[e]] = SnapOf(e)]
    /\ snapC' = [snapC EXCEPT ![uchild[e]] = SnapOf(uchild[e])]
    /\ UNCHANGED <<env_parent_id, ksched, mvars, env_free_list,
                   env_pgfault_upcall, uva, uchild, uval, nforks, dirtyP,
                   dirtyC>>
    /\ UNCHANGED pvars

\* fork's caller goes on
UForkRet(e) ==
    /\ Live(e)
    /\ upc[e] = UpcForkRet
    /\ upc' = [upc EXCEPT ![e] = UpcRun]
    /\ uchild' = [uchild EXCEPT ![e] = NULL]
    /\ UNCHANGED <<kvars, mvars, env_free_list, env_pgfault_upcall, uva,
                   uval, gvars, nforks>>
    /\ UNCHANGED pvars

\* the slot e leaves the history of fork, as a child and as a parent
Forget(e) ==
    /\ g_parent' = [i \in EnvSlots |->
                       IF i = e \/ g_parent[i] = e THEN NULL
                       ELSE g_parent[i]]
    /\ snapP' = [i \in EnvSlots |->
                    IF i = e \/ g_parent[i] = e THEN NoSnap ELSE snapP[i]]
    /\ snapC' = [i \in EnvSlots |->
                    IF i = e \/ g_parent[i] = e THEN NoSnap ELSE snapC[i]]
    /\ dirtyP' = [i \in EnvSlots |->
                     IF i = e \/ g_parent[i] = e THEN {} ELSE dirtyP[i]]
    /\ dirtyC' = [i \in EnvSlots |->
                     IF i = e \/ g_parent[i] = e THEN {} ELSE dirtyC[i]]

\* env_destroy of the environment itself: _env_free(e) releases its
\* memory, sets ENV_FREE and pushes the slot on env_free_list
EnvFree(e) ==
    /\ SetMem(env_free_mem(M, e))
    /\ env_status' = [env_status EXCEPT ![e] = ENV_FREE]
    /\ env_free_list' = <<e>> \o env_free_list
    /\ upc' = [upc EXCEPT ![e] = UpcRun]
    /\ uva' = [uva EXCEPT ![e] = NoVA]
    /\ uchild' = [uchild EXCEPT ![e] = NULL]
    /\ uval' = [uval EXCEPT ![e] = 0]
    /\ Forget(e)
    /\ UNCHANGED <<env_parent_id, ksched, env_pgfault_upcall, nforks>>

\* The store of byte v to page va by user code of e.  A writable mapping
\* takes the byte.  Otherwise the processor faults and the kernel's
\* page_fault_handler enters the upcall on the exception stack, or
\* destroys the environment if it has no upcall or no exception stack.
Store(e, va, v) ==
    IF _page_lookup(M, e, va) # NULL /\ pte[e][va].w
    THEN /\ frame_data' = [frame_data EXCEPT ![pte[e][va].f] = v]
         /\ upc' = [upc EXCEPT ![e] = UpcRun]
         /\ dirtyC' = [dirtyC EXCEPT ![e] = @ \cup {va}]
         /\ dirtyP' = [i \in EnvSlots |->
                          IF g_parent[i] = e THEN dirtyP[i] \cup {va}
                          ELSE dirtyP[i]]
         /\ uva' = [uva EXCEPT ![e] = NoVA]
         /\ uval' = [uval EXCEPT ![e] = 0]
         /\ UNCHANGED <<kvars, pp_ref, pp_link, page_free_list, env_pgdir,
                        pgdir, pte, kpanic, env_free_list,
                        env_pgfault_upcall, uchild, g_parent, snapP,
                        snapC, nforks>>
    ELSE IF env_pgfault_upcall[e]
            /\ _page_lookup(M, e, UXSTACK) # NULL /\ pte[e][UXSTACK].w
    THEN /\ upc' = [upc EXCEPT ![e] = UpcPgfault]
         /\ uva' = [uva EXCEPT ![e] = va]
         /\ uval' = [uval EXCEPT ![e] = v]
         /\ UNCHANGED <<kvars, mvars, env_free_list, env_pgfault_upcall,
                        uchild, gvars, nforks>>
    ELSE EnvFree(e)

UStore(e, va, v) ==
    /\ Live(e)
    /\ upc[e] = UpcRun
    /\ Store(e, va, v)
    /\ UNCHANGED pvars

\* pgfault has returned: the faulting store is executed again
\* the pages user code loads from outside fork
LoadPages == {PFTEMP, UDATA}

\* a load of user code: it faults when the page is not present
ULoad(e, va) ==
    /\ Live(e)
    /\ upc[e] = UpcRun
    /\ IF _page_lookup(M, e, va) # NULL
       THEN UNCHANGED <<kvars, mvars, uvars, gvars>>
       ELSE IF env_pgfault_upcall[e]
               /\ _page_lookup(M, e, UXSTACK) # NULL /\ pte[e][UXSTACK].w
       THEN /\ upc' = [upc EXCEPT ![e] = UpcPgfault]
            /\ uva' = [uva EXCEPT ![e] = va]
            /\ uval' = [uval EXCEPT ![e] = NULL]
            /\ UNCHANGED <<kvars, mvars, env_free_list, env_pgfault_upcall,
                           uchild, gvars, nforks>>
       ELSE EnvFree(e)
    /\ UNCHANGED pvars

URetry(e) ==
    /\ Live(e)
    /\ upc[e] = UpcRetry
    /\ Store(e, uva[e], uval[e])
    /\ UNCHANGED pvars

\* pgfault: panic unless the fault is a write to a copy-on-write page (a
\* store always faults with FEC_WR); then sys_page_alloc(0, PFTEMP,
\* PTE_W | PTE_U | PTE_P), panic on failure
\* a pgfault that refuses only the faults that are not writes
pgfault_refuses_reads_only(wr, entry) == ~wr

\* pgfault: !(err & FEC_WR) || !(uvpt[PGNUM(addr)] & PTE_COW)
pgfault_refuses(wr, entry) == ~wr \/ ~entry.cow

UPgfault(e) ==
    /\ Live(e)
    /\ upc[e] = UpcPgfault
    /\ IF pgfault_refuses(uval[e] # NULL, pte[e][uva[e]])
       THEN /\ upc' = [upc EXCEPT ![e] = UpcPanic]
            /\ UNCHANGED mvars
       ELSE LET r == sys_page_alloc(M, e, PFTEMP, PermW)
            IN /\ SetMem(r.m)
               /\ upc' = [upc EXCEPT ![e] = IF r.r < 0 THEN UpcPanic
                                            ELSE UpcPfCopy]
    /\ UNCHANGED <<kvars, env_free_list, env_pgfault_upcall, uva, uchild,
                   uval, nforks, gvars>>
    /\ UNCHANGED pvars

\* pgfault: memcpy(PFTEMP, addr, PGSIZE)
UPfCopy(e) ==
    /\ Live(e)
    /\ upc[e] = UpcPfCopy
    /\ SetMem(memcpy(M, e, PFTEMP, uva[e]))
    /\ upc' = [upc EXCEPT ![e] = UpcPfMap]
    /\ UNCHANGED <<kvars, env_free_list, env_pgfault_upcall, uva, uchild,
                   uval, nforks, gvars>>
    /\ UNCHANGED pvars

\* pgfault: sys_page_map(0, PFTEMP, 0, addr, PTE_W | PTE_U | PTE_P)
UPfMap(e) ==
    /\ Live(e)
    /\ upc[e] = UpcPfMap
    /\ LET r == sys_page_map(M, e, PFTEMP, e, uva[e], PermW)
       IN /\ SetMem(r.m)
          /\ upc' = [upc EXCEPT ![e] = IF r.r < 0 THEN UpcPanic
                                       ELSE UpcPfUnmap]
    /\ UNCHANGED <<kvars, env_free_list, env_pgfault_upcall, uva, uchild,
                   uval, nforks, gvars>>
    /\ UNCHANGED pvars

\* pgfault: sys_page_unmap(0, PFTEMP); return to the faulting store
UPfUnmap(e) ==
    /\ Live(e)
    /\ upc[e] = UpcPfUnmap
    /\ LET r == sys_page_unmap(M, e, PFTEMP)
       IN /\ SetMem(r.m)
          /\ upc' = [upc EXCEPT ![e] = UpcRetry]
    /\ UNCHANGED <<kvars, env_free_list, env_pgfault_upcall, uva, uchild,
                   uval, nforks, gvars>>
    /\ UNCHANGED pvars

\* the program ends: exit() calls sys_env_destroy(0)
UExit(e) ==
    /\ Live(e)
    /\ upc[e] = UpcRun
    /\ EnvFree(e)
    /\ UNCHANGED pvars

\* The first environment has been created from its image and has called
\* set_pgfault_handler: page directory, two page tables, a read-only page,
\* a writable page and its exception stack.  All other frames are on the
\* free list in the order page_init links them.
FirstFree == 6
MemInit ==
    /\ pp_ref = [f \in Frames |-> IF f < FirstFree THEN 1 ELSE 0]
    /\ pp_link = [f \in Frames |-> IF f > FirstFree THEN f - 1 ELSE NULL]
    /\ page_free_list = IF NFRAMES > FirstFree THEN NFRAMES - 1 ELSE NULL
    /\ frame_data = [f \in Frames |-> IF f \in {3, 4} THEN 1 ELSE 0]
    /\ env_pgdir = [i \in EnvSlots |-> IF i = 0 THEN 0 ELSE NULL]
    /\ pgdir = [i \in EnvSlots |->
                   IF i = 0
                   THEN (PD_TEMP :> NULL) @@ (PD_PROG :> 1) @@ (PD_STACK :> 2)
                   ELSE [d \in PDXs |-> NULL]]
    /\ pte = [i \in EnvSlots |->
                 IF i = 0
                 THEN (PFTEMP :> NoPte)
                      @@ (UTEXT :> [f |-> 3, w |-> FALSE, cow |-> FALSE])
                      @@ (UDATA :> [f |-> 4, w |-> TRUE, cow |-> FALSE])
                      @@ (UXSTACK :> [f |-> 5, w |-> TRUE, cow |-> FALSE])
                 ELSE [va \in VAs |-> NoPte]]
    /\ kpanic = FALSE

\* k slots are in use: env_free_list holds the others in table order
UserInitFrom(k) ==
    /\ env_free_list = [i \in 1 .. (NENV - k) |-> k + i - 1]
    /\ env_pgfault_upcall = [i \in EnvSlots |-> i = 0]
    /\ upc = [i \in EnvSlots |-> UpcRun]
    /\ uva = [i \in EnvSlots |-> NoVA]
    /\ uchild = [i \in EnvSlots |-> NULL]
    /\ uval = [i \in EnvSlots |-> 0]
    /\ nforks = 0
    /\ g_parent = [i \in EnvSlots |-> NULL]
    /\ snapP = [i \in EnvSlots |-> NoSnap]
    /\ snapC = [i \in EnvSlots |-> NoSnap]
    /\ dirtyP = [i \in EnvSlots |-> {}]
    /\ dirtyC = [i \in EnvSlots |-> {}]

UserInit == UserInitFrom(1)

\* the environments of the kernel specification
InUse == Cardinality({i \in EnvSlots : env_status[i] # ENV_FREE})

\* the memory of the kernel specification: the environment in slot i has
\* its page directory in frame 3i, the page table of its program in 3i+1 and
\* its page UDATA in 3i+2; the other frames are free
KMemInit ==
    /\ pp_ref = [f \in Frames |-> IF f < 3 * InUse THEN 1 ELSE 0]
    /\ pp_link = [f \in Frames |-> IF f > 3 * InUse THEN f - 1 ELSE NULL]
    /\ page_free_list = IF NFRAMES > 3 * InUse THEN NFRAMES - 1 ELSE NULL
    /\ frame_data = [f \in Frames |-> 0]
    /\ env_pgdir = [i \in EnvSlots |-> IF i < InUse THEN 3 * i ELSE NULL]
    /\ pgdir = [i \in EnvSlots |->
                   [d \in PDXs |-> IF i < InUse /\ d = PD_PROG
                                   THEN 3 * i + 1 ELSE NULL]]
    /\ pte = [i \in EnvSlots |->
                 [va \in VAs |->
                     IF i < InUse /\ va = UDATA
                     THEN [f |-> 3 * i + 2, w |-> TRUE, cow |-> FALSE]
                     ELSE NoPte]]
    /\ kpanic = FALSE

\* the processors are not part of the user-level specifications
SchedIdle ==
    /\ env_ipc_recving = [i \in EnvSlots |-> FALSE]
    /\ curenv = [c \in CPUs |-> NULL]
    /\ cpu_status = [c \in CPUs |-> CPU_HALTED]
    /\ env_lock = NULL
    /\ pc = [c \in CPUs |-> PcHalted]
    /\ scan_begin = [c \in CPUs |-> 0]
    /\ scan_cur = [c \in CPUs |-> 0]
    /\ scan_cnt = [c \in CPUs |-> 0]
    /\ since = [i \in EnvSlots |-> 0]
    /\ steady = TRUE
    /\ lk_holder = [l \in Locks |-> NULL]
    /\ lk_todo = [c \in CPUs |-> <<>>]
    /\ IpcIdle
    /\ EnvidIdle
    /\ WaitIdle
    /\ NumIdle

FInit ==
    /\ env_status = [i \in EnvSlots |->
                        IF i = 0 THEN ENV_RUNNABLE ELSE ENV_FREE]
    /\ env_parent_id = [i \in EnvSlots |-> NULL]
    /\ SchedIdle
    /\ MemInit
    /\ UserInit

FNext ==
    \E e \in EnvSlots :
        \/ UFork(e)
        \/ UDupChild(e)
        \/ UDupSelf(e)
        \/ UXstack(e)
        \/ UUpcall(e)
        \/ USetStatus(e)
        \/ UForkRet(e)
        \/ \E va \in StorePages, v \in Values : UStore(e, va, v)
        \/ \E va \in LoadPages : ULoad(e, va)
        \/ URetry(e)
        \/ UPgfault(e)
        \/ UPfCopy(e)
        \/ UPfMap(e)
        \/ UPfUnmap(e)
        \/ UExit(e)

(***************************************************************************)
(* The pmap interface as the kernel's system calls use it from several     *)
(* processors.  page_alloc, page_lookup, page_insert, page_remove,         *)
(* page_decref and page_free each take pmap_lock for their own duration,   *)
(* so each call is one step and the calls of different processors          *)
(* interleave between them.                                                *)
(***************************************************************************)
\* the processor is not inside a path that uses the pmap interface
PpcIdle == "idle"
\* it holds a frame in its local pp and is about to call page_insert
PpcInsert == "insert"
\* page_insert has failed for a frame it allocated: page_free follows
PpcFree == "free"
\* it is inside env_free, about to release what k_op names
PpcTeardown == "teardown"
PpcValues == {PpcIdle, PpcInsert, PpcFree, PpcTeardown}

\* the address spaces and pages the processors work on
PmapEnvs == {e \in EnvSlots : e < 2}
PmapPages == {UDATA}

\* what _env_free releases, in its order: the pages of a page table, then
\* the page table, region after region, and last the page directory
OpRm == "page_remove"
OpPt == "page table"
OpPd == "page directory"
TeardownOps ==
    <<[op |-> OpRm, x |-> PFTEMP], [op |-> OpPt, x |-> PD_TEMP],
      [op |-> OpRm, x |-> UTEXT], [op |-> OpRm, x |-> UDATA],
      [op |-> OpPt, x |-> PD_PROG],
      [op |-> OpRm, x |-> UXSTACK], [op |-> OpPt, x |-> PD_STACK],
      [op |-> OpPd, x |-> NoVA]>>

PmapTypeOK ==
    /\ ppc \in [CPUs -> PpcValues]
    /\ p_pp \in [CPUs -> Frames \cup {NULL}]
    /\ p_env \in [CPUs -> EnvSlots \cup {NULL}]
    /\ p_va \in [CPUs -> VAs \cup {NoVA}]
    /\ p_fresh \in [CPUs -> BOOLEAN]
    /\ p_k \in [CPUs -> 0 .. Len(TeardownOps)]
    /\ nops \in 0 .. MaxOps
    /\ p_same \in Frames \cup {NULL}

\* the address space of e exists
Alive(m, e) == m.env_pgdir[e] # NULL

\* no processor is inside a path that names the address space of e
Quiet(e) == \A c \in CPUs : p_env[c] # e

\* the address space of e exists and is not being released by env_free
Stable(m, e) ==
    Alive(m, e) /\ \A c \in CPUs : ~(ppc[c] = PpcTeardown /\ p_env[c] = e)

PathEnd(c) ==
    /\ ppc' = [ppc EXCEPT ![c] = PpcIdle]
    /\ p_pp' = [p_pp EXCEPT ![c] = NULL]
    /\ p_env' = [p_env EXCEPT ![c] = NULL]
    /\ p_va' = [p_va EXCEPT ![c] = NoVA]
    /\ p_fresh' = [p_fresh EXCEPT ![c] = FALSE]
    /\ p_k' = [p_k EXCEPT ![c] = 0]
    /\ nops' = nops

PathInsert(c, pp, e, va, fresh) ==
    /\ ppc' = [ppc EXCEPT ![c] = PpcInsert]
    /\ p_pp' = [p_pp EXCEPT ![c] = pp]
    /\ p_env' = [p_env EXCEPT ![c] = e]
    /\ p_va' = [p_va EXCEPT ![c] = va]
    /\ p_fresh' = [p_fresh EXCEPT ![c] = fresh]
    /\ nops' = nops + 1
    /\ p_k' = p_k

\* sys_page_alloc(e, va, perm), first call: pp = page_alloc(ALLOC_ZERO);
\* -E_NO_MEM is returned if there is no frame
PPageAlloc(c, e, va) ==
    /\ ~kpanic
    /\ UNCHANGED p_same
    /\ ppc[c] = PpcIdle
    /\ nops < MaxOps
    /\ Stable(M, e)
    /\ LET a == _page_alloc(M, TRUE)
       IN /\ SetMem(a.m)
          /\ IF a.pp = NULL
             THEN UNCHANGED pvars
             ELSE PathInsert(c, a.pp, e, va, TRUE)
    /\ UNCHANGED <<kvars, uvars, gvars>>

\* sys_ipc_try_send with a page, and sys_page_map: pp = page_lookup(the
\* source's pgdir, srcva, &pte); -E_INVAL if nothing is mapped there
PPageLookup(c, srce, srcva, e, va) ==
    /\ ~kpanic
    /\ UNCHANGED p_same
    /\ ppc[c] = PpcIdle
    /\ nops < MaxOps
    /\ Alive(M, srce)
    /\ Stable(M, e)
    /\ IF _page_lookup(M, srce, srcva) = NULL
       THEN UNCHANGED pvars
       ELSE PathInsert(c, _page_lookup(M, srce, srcva), e, va, FALSE)
    /\ UNCHANGED <<kvars, mvars, uvars, gvars>>

\* page_insert(e->env_pgdir, pp, va, perm) with the frame held in pp; when
\* it fails sys_page_alloc goes on to page_free(pp)
\* the frames linked from the free list of the memory m
RECURSIVE FreeIn(_, _, _)
FreeIn(m, f, n) ==
    IF f = NULL \/ n = 0
    THEN {}
    ELSE {f} \cup FreeIn(m, m.pp_link[f], n - 1)

OnFreeList(m, f) == f \in FreeIn(m, m.page_free_list, NFRAMES)

\* processor c is about to page_insert the frame that is already mapped at
\* that address of that address space
Reinsert(c) ==
    /\ ppc[c] = PpcInsert
    /\ pte[p_env[c]][p_va[c]].f = p_pp[c]
    /\ ~OnFreeList(M, p_pp[c])

PPageInsert(c) ==
    /\ ~kpanic
    /\ ppc[c] = PpcInsert
    /\ LET r == page_insert(M, p_env[c], p_pp[c], p_va[c], PermW)
       IN /\ SetMem(r.m)
          /\ p_same' = IF Reinsert(c) /\ r.r = 0 THEN p_pp[c] ELSE p_same
          /\ IF r.r < 0 /\ p_fresh[c]
             THEN /\ ppc' = [ppc EXCEPT ![c] = PpcFree]
                  /\ UNCHANGED <<p_pp, p_env, p_va, p_fresh, p_k, nops>>
             ELSE PathEnd(c)
    /\ UNCHANGED <<kvars, uvars, gvars>>

\* page_free(pp) after the failed page_insert
PPageFree(c) ==
    /\ ~kpanic
    /\ UNCHANGED p_same
    /\ ppc[c] = PpcFree
    /\ SetMem(_page_free(M, p_pp[c]))
    /\ PathEnd(c)
    /\ UNCHANGED <<kvars, uvars, gvars>>

\* sys_page_unmap(e, va): page_remove(e->env_pgdir, va)
PPageRemove(c, e, va) ==
    /\ ~kpanic
    /\ UNCHANGED p_same
    /\ ppc[c] = PpcIdle
    /\ nops < MaxOps
    /\ Stable(M, e)
    /\ SetMem(_page_remove(M, e, va))
    /\ nops' = nops + 1
    /\ UNCHANGED <<kvars, uvars, gvars, ppc, p_pp, p_env, p_va, p_fresh,
                   p_k>>

\* the operation o of _env_free has something to release in e
Applicable(m, e, o) ==
    IF o.op = OpRm THEN _page_lookup(m, e, o.x) # NULL
    ELSE IF o.op = OpPt THEN m.pgdir[e][o.x] # NULL
    ELSE TRUE

NextOp(m, e, k) ==
    LET S == {i \in k .. Len(TeardownOps) : Applicable(m, e, TeardownOps[i])}
    IN CHOOSE i \in S : \A j \in S : i <= j

\* _env_free(e) is entered for an address space no other path is using
PEnvFreeBegin(c, e) ==
    /\ ~kpanic
    /\ UNCHANGED p_same
    /\ ppc[c] = PpcIdle
    /\ nops < MaxOps
    /\ Alive(M, e)
    /\ Quiet(e)
    /\ ppc' = [ppc EXCEPT ![c] = PpcTeardown]
    /\ p_env' = [p_env EXCEPT ![c] = e]
    /\ p_k' = [p_k EXCEPT ![c] = NextOp(M, e, 1)]
    /\ nops' = nops + 1
    /\ UNCHANGED <<kvars, mvars, uvars, gvars, p_pp, p_va, p_fresh>>

\* _env_free(e): page_remove(e->env_pgdir, va) of a mapped page, or
\* e->env_pgdir[pdeno] = 0; page_decref(pa2page(pa)) of a page table, or
\* e->env_pgdir = 0; page_decref(pa2page(pa)) of the page directory
TeardownOp(m, e, o) ==
    IF o.op = OpRm
    THEN _page_remove(m, e, o.x)
    ELSE IF o.op = OpPt
    THEN _page_decref([m EXCEPT !.pgdir[e][o.x] = NULL], m.pgdir[e][o.x])
    ELSE _page_decref([m EXCEPT !.env_pgdir[e] = NULL], m.env_pgdir[e])

PEnvFreeStep(c) ==
    /\ ~kpanic
    /\ UNCHANGED p_same
    /\ ppc[c] = PpcTeardown
    /\ LET e == p_env[c]
           o == TeardownOps[p_k[c]]
           m1 == TeardownOp(M, e, o)
       IN /\ SetMem(m1)
          /\ IF o.op = OpPd
             THEN PathEnd(c)
             ELSE /\ p_k' = [p_k EXCEPT ![c] = NextOp(m1, e, p_k[c] + 1)]
                  /\ UNCHANGED <<ppc, p_pp, p_env, p_va, p_fresh, nops>>
    /\ UNCHANGED <<kvars, uvars, gvars>>

\* env_alloc of the slot e: env_setup_vm gives it a page directory
PEnvSetupVm(c, e) ==
    /\ ~kpanic
    /\ UNCHANGED p_same
    /\ ppc[c] = PpcIdle
    /\ nops < MaxOps
    /\ ~Alive(M, e)
    /\ LET v == env_setup_vm(M, e)
       IN SetMem(v.m)
    /\ nops' = nops + 1
    /\ UNCHANGED <<kvars, uvars, gvars, ppc, p_pp, p_env, p_va, p_fresh,
                   p_k>>

\* no processor is inside a path
PmapIdle ==
    /\ ppc = [c \in CPUs |-> PpcIdle]
    /\ p_pp = [c \in CPUs |-> NULL]
    /\ p_env = [c \in CPUs |-> NULL]
    /\ p_va = [c \in CPUs |-> NoVA]
    /\ p_fresh = [c \in CPUs |-> FALSE]
    /\ p_k = [c \in CPUs |-> 0]
    /\ nops = 0
    /\ p_same = NULL

\* Two environments exist: slot 0 has a page table and one page mapped,
\* slot 1 only its page directory.  The last PmapFree frames are on the
\* free list; the frames between hold other kernel data.
PmapFirstFree == NFRAMES - PmapFree
PInit ==
    /\ env_status = [i \in EnvSlots |->
                        IF i \in PmapEnvs THEN ENV_RUNNABLE ELSE ENV_FREE]
    /\ env_parent_id = [i \in EnvSlots |-> NULL]
    /\ SchedIdle
    /\ UserInit
    /\ pp_ref = [f \in Frames |-> IF f < PmapFirstFree THEN 1 ELSE 0]
    /\ pp_link = [f \in Frames |->
                     IF f > PmapFirstFree THEN f - 1 ELSE NULL]
    /\ page_free_list = NFRAMES - 1
    /\ frame_data = [f \in Frames |-> 0]
    /\ env_pgdir = [i \in EnvSlots |->
                       IF i = 0 THEN 0 ELSE IF i = 1 THEN 3 ELSE NULL]
    /\ pgdir = [i \in EnvSlots |->
                   [d \in PDXs |-> IF i = 0 /\ d = PD_PROG THEN 1 ELSE NULL]]
    /\ pte = [i \in EnvSlots |->
                 [va \in VAs |->
                     IF i = 0 /\ va = UDATA
                     THEN [f |-> 2, w |-> TRUE, cow |-> FALSE]
                     ELSE NoPte]]
    /\ kpanic = FALSE
    /\ PmapIdle

PNext ==
    \E c \in CPUs :
        \/ \E e \in PmapEnvs, va \in PmapPages : PPageAlloc(c, e, va)
        \/ \E srce, e \in PmapEnvs, srcva, va \in PmapPages :
               PPageLookup(c, srce, srcva, e, va)
        \/ PPageInsert(c)
        \/ PPageFree(c)
        \/ \E e \in PmapEnvs, va \in PmapPages : PPageRemove(c, e, va)
        \/ \E e \in PmapEnvs : PEnvFreeBegin(c, e)
        \/ PEnvFreeStep(c)
        \/ \E e \in PmapEnvs : PEnvSetupVm(c, e)

(***************************************************************************)
(* The three spin locks along whole kernel entries.  A kernel entry is the *)
(* sequence of spin_lock and spin_unlock calls a processor makes from the  *)
(* trap to its return to user mode (or to the hlt loop, or to the kernel   *)
(* monitor after a panic).                                                 *)
(***************************************************************************)
OpAcq == "spin_lock"
OpRel == "spin_unlock"
\* panic / the monitor loop: the processor goes no further
OpStop == "stop"

Acq(l) == <<[op |-> OpAcq, lk |-> l]>>
Rel(l) == <<[op |-> OpRel, lk |-> l]>>
Stop == <<[op |-> OpStop, lk |-> LkCons]>>

\* vcprintf: spin_lock(&cons_lock); vprintfmt(..); spin_unlock(&cons_lock)
vcprintf_ops == Acq(LkCons) \o Rel(LkCons)

\* cons_getc: cons_lock around the poll of the input buffer
cons_getc_ops == Acq(LkCons) \o Rel(LkCons)

\* the public entry points of kern/pmap.c that cannot fail with the lock:
\* page_alloc, page_decref, pgdir_walk, page_lookup, page_remove,
\* user_mem_check
pmap_call_ops == Acq(LkPmap) \o Rel(LkPmap)

\* page_free: _page_free releases pmap_lock before it panics
page_free_ops(ok) ==
    IF ok
    THEN Acq(LkPmap) \o Rel(LkPmap)
    ELSE Acq(LkPmap) \o Rel(LkPmap) \o vcprintf_ops \o Stop

\* page_insert that returns -E_NO_MEM without releasing pmap_lock
page_insert_ops_keeps_lock(ok) ==
    IF ok THEN Acq(LkPmap) \o Rel(LkPmap) ELSE Acq(LkPmap)

\* page_insert: pmap_lock is released on the -E_NO_MEM return and at the end
page_insert_ops(ok) == Acq(LkPmap) \o Rel(LkPmap)

\* the end of trap(): spin_lock(&env_lock), then env_run or sched_yield,
\* which release it in env_pop_tf or sched_halt
trap_tail_ops == Acq(LkEnv) \o Rel(LkEnv)

\* timer interrupt and sys_yield: spin_lock(&env_lock); sched_yield()
yield_ops == Acq(LkEnv) \o Rel(LkEnv)

\* monitor(tf): prints, reads a line, runs commands (vmlst walks the page
\* table with pgdir_walk and prints)
monitor_ops == vcprintf_ops \o cons_getc_ops \o pmap_call_ops \o vcprintf_ops

\* trap_dispatch, T_BRKPT: spin_lock(&env_lock); monitor(tf); spin_unlock
brkpt_ops == Acq(LkEnv) \o monitor_ops \o Rel(LkEnv) \o trap_tail_ops

\* trap(): a zombie curenv: env_free(curenv); spin_lock; sched_yield()
dying_ops ==
    Acq(LkEnv) \o pmap_call_ops \o Rel(LkEnv) \o yield_ops

\* page_fault_handler with an upcall: user_mem_assert, then
\* spin_lock(&env_lock); env_run(curenv)
page_fault_ops == pmap_call_ops \o Acq(LkEnv) \o Rel(LkEnv)

\* sys_env_destroy: cprintf and _env_destroy under env_lock; destroying
\* itself it leaves through sched_yield
sys_env_destroy_ops(ok, self) ==
    IF ~ok THEN Acq(LkEnv) \o Rel(LkEnv) \o trap_tail_ops
    ELSE IF self
    THEN Acq(LkEnv) \o vcprintf_ops \o pmap_call_ops \o Rel(LkEnv)
    ELSE Acq(LkEnv) \o vcprintf_ops \o pmap_call_ops \o Rel(LkEnv)
             \o trap_tail_ops

\* sys_exofork: _env_alloc calls env_setup_vm, which calls page_alloc
sys_exofork_ops(ok) ==
    IF ok
    THEN Acq(LkEnv) \o pmap_call_ops \o Rel(LkEnv) \o trap_tail_ops
    ELSE Acq(LkEnv) \o Rel(LkEnv) \o trap_tail_ops

\* sys_env_set_status: the error return does not release env_lock
sys_env_set_status_ops(ok) ==
    IF ok
    THEN Acq(LkEnv) \o Rel(LkEnv) \o trap_tail_ops
    ELSE Acq(LkEnv) \o trap_tail_ops

\* sys_ipc_recv
sys_ipc_recv_ops == Acq(LkEnv) \o Rel(LkEnv) \o trap_tail_ops

\* sys_ipc_try_send: with a page, page_lookup and page_insert under
\* env_lock
sys_ipc_try_send_ops(page, ok) ==
    IF page
    THEN Acq(LkEnv) \o pmap_call_ops \o page_insert_ops(ok) \o Rel(LkEnv)
             \o trap_tail_ops
    ELSE Acq(LkEnv) \o Rel(LkEnv) \o trap_tail_ops

\* sys_page_map and its like: public envid2env, then the pmap calls
sys_page_map_ops(ok) ==
    Acq(LkEnv) \o Rel(LkEnv) \o pmap_call_ops \o page_insert_ops(ok)
        \o trap_tail_ops

\* sys_page_unmap ending in a page_free that may find a corrupt frame
sys_page_unmap_ops(ok) ==
    Acq(LkEnv) \o Rel(LkEnv) \o page_free_ops(ok)
        \o (IF ok THEN trap_tail_ops ELSE <<>>)

\* sys_cputs: user_mem_assert (user_mem_check), then cprintf
sys_cputs_ops == pmap_call_ops \o vcprintf_ops \o trap_tail_ops

KernelEntries ==
    {yield_ops, brkpt_ops, dying_ops, page_fault_ops, sys_ipc_recv_ops,
     sys_cputs_ops}
    \cup {sys_env_destroy_ops(ok, self) : ok \in BOOLEAN, self \in BOOLEAN}
    \cup {sys_exofork_ops(ok) : ok \in BOOLEAN}
    \cup {sys_env_set_status_ops(ok) : ok \in BOOLEAN}
    \cup {sys_ipc_try_send_ops(page, ok) : page \in BOOLEAN, ok \in BOOLEAN}
    \cup {sys_page_map_ops(ok) : ok \in BOOLEAN}
    \cup {sys_page_unmap_ops(ok) : ok \in BOOLEAN}

\* the locks a processor holds
HeldBy(c) == {l \in Locks : lk_holder[l] = c}

\* a processor in user mode traps into the kernel
LEnter(c, entry) ==
    /\ lk_todo[c] = <<>>
    /\ HeldBy(c) = {}
    /\ lk_todo' = [lk_todo EXCEPT ![c] = entry]
    /\ UNCHANGED lk_holder
    /\ UNCHANGED <<kcore, mvars, uvars, gvars, pvars>>

\* spin_lock(l): waits until the lock is free, whoever holds it
LAcquire(c) ==
    /\ lk_todo[c] # <<>>
    /\ Head(lk_todo[c]).op = OpAcq
    /\ lk_holder[Head(lk_todo[c]).lk] = NULL
    /\ lk_holder' = [lk_holder EXCEPT ![Head(lk_todo[c]).lk] = c]
    /\ lk_todo' = [lk_todo EXCEPT ![c] = Tail(lk_todo[c])]
    /\ UNCHANGED <<kcore, mvars, uvars, gvars, pvars>>

\* spin_unlock(l)
LRelease(c) ==
    /\ lk_todo[c] # <<>>
    /\ Head(lk_todo[c]).op = OpRel
    /\ lk_holder' = [lk_holder EXCEPT ![Head(lk_todo[c]).lk] = NULL]
    /\ lk_todo' = [lk_todo EXCEPT ![c] = Tail(lk_todo[c])]
    /\ UNCHANGED <<kcore, mvars, uvars, gvars, pvars>>

LInit == KInit /\ MemInit /\ UserInit /\ PmapIdle

LNext ==
    \E c \in CPUs :
        \/ \E entry \in KernelEntries : LEnter(c, entry)
        \/ LAcquire(c)
        \/ LRelease(c)

(***************************************************************************)
(* IPC: sys_ipc_recv and sys_ipc_try_send of kern/syscall.c, from several  *)
(* environments that run on different processors.  Both hold env_lock for  *)
(* their whole body, so a receive is one step.  A send that transfers a    *)
(* page calls page_lookup and page_insert, each of which takes pmap_lock   *)
(* for itself: the send is one step up to the return of page_lookup and    *)
(* another for the rest, and in between a processor that needs pmap_lock   *)
(* but not env_lock can run: the page_remove of a sys_page_unmap whose     *)
(* envid2env has already returned.                                         *)
(***************************************************************************)
BelowUTOP(a) == a # AboveUTOP
\* PGOFF(a) != 0 exactly for the address that is not page-aligned
PGOFF(a) == IF a = Unaligned THEN 1 ELSE 0

\* (perm & PTE_SYSCALL) != perm
NotSyscallPerm(perm) == perm.other

\* the state the two system calls work on, as one record
K == [status |-> env_status, recving |-> env_ipc_recving,
      from |-> env_ipc_from, value |-> env_ipc_value,
      dstva |-> env_ipc_dstva, perm |-> env_ipc_perm, eax |-> reg_eax,
      m |-> M]

SetK(k) ==
    /\ env_status' = k.status
    /\ env_ipc_recving' = k.recving
    /\ env_ipc_from' = k.from
    /\ env_ipc_value' = k.value
    /\ env_ipc_dstva' = k.dstva
    /\ env_ipc_perm' = k.perm
    /\ reg_eax' = k.eax
    /\ SetMem(k.m)

\* _envid2env(envid, &env, checkperm) called by the environment cur
envid2env_r(k, cur, e, checkperm) ==
    IF k.status[e] = ENV_FREE THEN E_BAD_ENV
    ELSE IF checkperm /\ e # cur /\ env_parent_id[e] # cur THEN E_BAD_ENV
    ELSE 0

\* a sys_ipc_recv that refuses a dstva at or above UTOP
sys_ipc_recv_k_rejects_above(k, e, dstva) ==
    IF ~BelowUTOP(dstva) \/ PGOFF(dstva) # 0
    THEN [k |-> k, r |-> E_INVAL]
    ELSE [k |-> [k EXCEPT !.dstva[e] = dstva,
                          !.recving[e] = TRUE,
                          !.status[e] = ENV_NOT_RUNNABLE],
          r |-> 0]

\* sys_ipc_recv(dstva) called by the environment e
sys_ipc_recv_k(k, e, dstva) ==
    IF BelowUTOP(dstva) /\ PGOFF(dstva) # 0
    THEN [k |-> k, r |-> E_INVAL]
    ELSE LET k1 == IF BelowUTOP(dstva)
                   THEN [k EXCEPT !.dstva[e] = dstva]
                   ELSE k
         IN [k |-> [k1 EXCEPT !.recving[e] = TRUE,
                              !.status[e] = ENV_NOT_RUNNABLE],
             r |-> 0]

\* an acceptance that leaves env_ipc_recving set
ipc_accept_keeps_recving(k, s, t, value) ==
    [k EXCEPT !.from[t] = s,
              !.value[t] = value,
              !.eax[t] = 0]

\* an acceptance that leaves env_ipc_value as it was
ipc_accept_without_value(k, s, t, value) ==
    [k EXCEPT !.recving[t] = FALSE,
              !.from[t] = s,
              !.eax[t] = 0]

\* sys_ipc_try_send: the four assignments that accept the message
ipc_accept(k, s, t, value) ==
    [k EXCEPT !.recving[t] = FALSE,
              !.from[t] = s,
              !.value[t] = value,
              !.eax[t] = 0]

\* a sys_ipc_try_send that records the message before it looks at
\* env_ipc_recving
sys_ipc_try_send_lookup_records_first(k, s, t, value, srcva, perm) ==
    IF envid2env_r(k, s, t, FALSE) < 0
    THEN [k |-> k, done |-> TRUE, r |-> E_BAD_ENV, pp |-> NULL]
    ELSE [k |-> [k EXCEPT !.from[t] = s, !.value[t] = value],
          done |-> TRUE,
          r |-> IF k.recving[t] THEN E_INVAL ELSE E_IPC_NOT_RECV,
          pp |-> NULL]

\* sys_ipc_try_send from its spin_lock to the return of page_lookup.
\* r is the value returned if the call ends here (done), pp the frame found.
sys_ipc_try_send_lookup(k, s, t, value, srcva, perm) ==
    IF envid2env_r(k, s, t, FALSE) < 0
    THEN [k |-> k, done |-> TRUE, r |-> E_BAD_ENV, pp |-> NULL]
    ELSE IF ~k.recving[t]
    THEN [k |-> k, done |-> TRUE, r |-> E_IPC_NOT_RECV, pp |-> NULL]
    ELSE LET k1 == ipc_accept(k, s, t, value)
         IN IF ~BelowUTOP(srcva)
            THEN [k |-> [k1 EXCEPT !.status[t] = ENV_RUNNABLE],
                  done |-> TRUE, r |-> 0, pp |-> NULL]
            ELSE IF PGOFF(srcva) # 0 \/ NotSyscallPerm(perm)
            THEN [k |-> k1, done |-> TRUE, r |-> E_INVAL, pp |-> NULL]
            ELSE LET pp == _page_lookup(k1.m, s, srcva)
                 IN IF pp = NULL
                    THEN [k |-> k1, done |-> TRUE, r |-> E_INVAL,
                          pp |-> NULL]
                    ELSE [k |-> k1, done |-> FALSE, r |-> 0, pp |-> pp]

\* sys_ipc_try_send from the test of *pte to its return
sys_ipc_try_send_rest(k, s, t, srcva, perm, pp) ==
    IF perm.w /\ ~k.m.pte[s][srcva].w
    THEN [k |-> k, r |-> E_INVAL]
    ELSE IF BelowUTOP(k.dstva[t])
    THEN LET pi == page_insert(k.m, t, pp, k.dstva[t], perm)
         IN IF pi.r # 0
            THEN [k |-> k, r |-> pi.r]
            ELSE [k |-> [k EXCEPT !.m = pi.m,
                                  !.perm[t] = perm,
                                  !.status[t] = ENV_RUNNABLE],
                  r |-> 0]
    ELSE [k |-> [k EXCEPT !.status[t] = ENV_RUNNABLE], r |-> 0]

\* sys_page_unmap(envid, va) up to the return of envid2env and the test of
\* va: the value returned when the call ends there, 0 when it goes on
sys_page_unmap_check(k, cur, e, va) ==
    IF envid2env_r(k, cur, e, TRUE) < 0 THEN E_BAD_ENV
    ELSE IF ~BelowUTOP(va) \/ PGOFF(va) # 0 THEN E_INVAL
    ELSE 0

\* the environments that use IPC, and the arguments they pass
IpcEnvs == {e \in EnvSlots : e < 3}
SrcVAs == {UTEXT, UDATA, AboveUTOP, Unaligned}
DstVAs == {PFTEMP, UDATA, AboveUTOP, Unaligned}
UnmapVAs == {UTEXT, AboveUTOP}
\* environments 0 and 1 send, 1 and 2 receive
Senders == {0, 1}
Receivers == {1, 2}
\* environment 1 is the one whose page is unmapped, by its parent (0) or by
\* its sibling (2), which envid2env refuses
Unmapped == 1
Unmappers == {0, 2}

\* the environment runs user code on some processor and is in no call
CanCall(e) ==
    /\ ~kpanic
    /\ nipc < MaxIpc
    /\ env_status[e] = ENV_RUNNABLE
    /\ snd.s # e
    /\ unm.u # e

\* the call of environment e returns r: syscall()'s result is stored in
\* the caller's saved %eax
Returns(k, e, r) == [k EXCEPT !.eax[e] = r]

\* what the IPC steps leave alone
iframe == <<env_parent_id, curenv, cpu_status, env_lock, pc, scan_begin,
            scan_cur, scan_cnt, since, steady, lvars, uvars, gvars, pvars,
            evars, wvars, nvars>>

IRecv(e, dstva) ==
    /\ CanCall(e)
    /\ snd = NoSend
    /\ LET o == sys_ipc_recv_k(K, e, dstva)
       IN /\ SetK(Returns(o.k, e, o.r))
          /\ IF o.r = 0
             THEN /\ g_dst' = [g_dst EXCEPT ![e] = dstva]
                  /\ nsucc' = [nsucc EXCEPT ![e] = 0]
             ELSE UNCHANGED <<g_dst, nsucc>>
    /\ nipc' = nipc + 1
    /\ UNCHANGED <<snd, unm, iframe>>

ISendBegin(s, t, value, srcva, perm) ==
    /\ CanCall(s)
    /\ t # s
    /\ snd = NoSend
    /\ LET o == sys_ipc_try_send_lookup(K, s, t, value, srcva, perm)
       IN IF o.done
          THEN /\ SetK(Returns(o.k, s, o.r))
               /\ nipc' = nipc + 1
               /\ nsucc' = [nsucc EXCEPT ![t] =
                               IF o.r = 0 THEN @ + 1 ELSE @]
               /\ UNCHANGED snd
          ELSE /\ SetK(o.k)
               /\ snd' = [s |-> s, t |-> t, value |-> value,
                          srcva |-> srcva, perm |-> perm, pp |-> o.pp]
               /\ UNCHANGED <<nipc, nsucc>>
    /\ UNCHANGED <<unm, g_dst, iframe>>

ISendEnd ==
    /\ snd # NoSend
    /\ ~kpanic
    /\ LET o == sys_ipc_try_send_rest(K, snd.s, snd.t, snd.srcva, snd.perm,
                                      snd.pp)
       IN /\ SetK(Returns(o.k, snd.s, o.r))
          /\ nsucc' = [nsucc EXCEPT ![snd.t] =
                          IF o.r = 0 THEN @ + 1 ELSE @]
    /\ snd' = NoSend
    /\ nipc' = nipc + 1
    /\ UNCHANGED <<unm, g_dst, iframe>>

IUnmapBegin(u, e, va) ==
    /\ CanCall(u)
    /\ snd = NoSend
    /\ unm = NoUnmap
    /\ LET r == sys_page_unmap_check(K, u, e, va)
       IN IF r # 0
          THEN /\ SetK(Returns(K, u, r))
               /\ nipc' = nipc + 1
               /\ UNCHANGED unm
          ELSE /\ SetK(K)
               /\ unm' = [u |-> u, e |-> e, va |-> va]
               /\ UNCHANGED nipc
    /\ UNCHANGED <<snd, g_dst, nsucc, iframe>>

IUnmapEnd ==
    /\ unm # NoUnmap
    /\ ~kpanic
    /\ LET o == sys_page_unmap(M, unm.e, unm.va)
       IN SetK(Returns([K EXCEPT !.m = o.m], unm.u, o.r))
    /\ unm' = NoUnmap
    /\ nipc' = nipc + 1
    /\ UNCHANGED <<snd, g_dst, nsucc, iframe>>

\* Three environments, 1 and 2 children of 0, each with its page directory,
\* the page table of the program, UTEXT read-only and UDATA writable, in
\* frames of its own; IpcFree frames are free, the kernel holds the rest.
IpcFirstFree == NFRAMES - IpcFree
IpcMemInit ==
    /\ pp_ref = [f \in Frames |-> IF f < IpcFirstFree THEN 1 ELSE 0]
    /\ pp_link = [f \in Frames |->
                     IF f > IpcFirstFree THEN f - 1 ELSE NULL]
    /\ page_free_list = NFRAMES - 1
    /\ frame_data = [f \in Frames |-> 0]
    /\ env_pgdir = [i \in EnvSlots |->
                       IF i \in IpcEnvs THEN 4 * i ELSE NULL]
    /\ pgdir = [i \in EnvSlots |->
                   [d \in PDXs |-> IF i \in IpcEnvs /\ d = PD_PROG
                                   THEN 4 * i + 1 ELSE NULL]]
    /\ pte = [i \in EnvSlots |->
                 [va \in VAs |->
                     IF i \in IpcEnvs /\ va = UTEXT
                     THEN [f |-> 4 * i + 2, w |-> FALSE, cow |-> FALSE]
                     ELSE IF i \in IpcEnvs /\ va = UDATA
                     THEN [f |-> 4 * i + 3, w |-> TRUE, cow |-> FALSE]
                     ELSE NoPte]]
    /\ kpanic = FALSE

IInit ==
    /\ env_status = [i \in EnvSlots |->
                        IF i \in IpcEnvs THEN ENV_RUNNABLE ELSE ENV_FREE]
    /\ env_parent_id = [i \in EnvSlots |->
                           IF i \in IpcEnvs /\ i # 0 THEN 0 ELSE NULL]
    /\ SchedIdle
    /\ UserInit
    /\ IpcMemInit
    /\ PmapIdle

INext ==
    \/ \E e \in Receivers, dstva \in DstVAs : IRecv(e, dstva)
    \/ \E s \in Senders, t \in IpcEnvs, value \in 0 .. MaxVal,
          srcva \in SrcVAs, perm \in SendPerms :
          ISendBegin(s, t, value, srcva, perm)
    \/ ISendEnd
    \/ \E u \in Unmappers, va \in UnmapVAs : IUnmapBegin(u, Unmapped, va)
    \/ IUnmapEnd

(***************************************************************************)
(* The specifications                                                      *)
(***************************************************************************)
\* the kernel: processors, env_lock, traps, system calls, sched_yield
(***************************************************************************)
(* Identities of environments: _env_alloc, _envid2env and their callers.   *)
(* The bodies of _env_alloc and _envid2env are outside the sources at      *)
(* hand; the generation of an identity and the permission check follow the *)
(* specification's description of them.  Any RUNNABLE environment may call *)
(* at any time; every system call is one step (it runs under env_lock).    *)
(***************************************************************************)
\* the identity of the environment in slot e, and of its parent
EnvId(e) == [g |-> env_gen[e], i |-> e]
ParentId(e) == [g |-> par_gen[e], i |-> env_parent_id[e]]

\* the slot an identity names: NULL for an identity that is unknown or stale
Occupant(id) ==
    IF /\ id.i \in EnvSlots
       /\ env_status[id.i] # ENV_FREE
       /\ env_gen[id.i] = id.g
    THEN id.i
    ELSE NULL

\* an _env_alloc that hands out the slot's previous identity again
NextGen_reused(g) == IF g = 0 THEN 1 ELSE g

\* _env_alloc: the generation of the identity given to a slot whose last
\* identity had generation g
NextGen(g) == g + 1

\* results of resolve(id, checkPermission)
Resolved == "Resolved"
NotFound == "NotFound"
PermissionDenied == "PermissionDenied"

RECURSIVE WalkParents(_, _, _)
\* the permission check: follow the parent identities upward from e, at most
\* n links, looking for the caller
WalkParents(cur, e, n) ==
    IF e = cur THEN TRUE
    ELSE IF n = 0 THEN FALSE
    ELSE LET p == Occupant(ParentId(e))
         IN IF p = NULL THEN FALSE ELSE WalkParents(cur, p, n - 1)

\* a permission check that looks at the immediate parent only
MayAccess_parent_only(cur, e) ==
    e = cur \/ Occupant(ParentId(e)) = cur

MayAccess(cur, e) == WalkParents(cur, e, NENV)

\* _envid2env(envid, &e, checkperm) called by the environment cur
_envid2env(cur, id, checkperm) ==
    IF id = Envid0 THEN [e |-> cur, r |-> Resolved]
    ELSE LET e == Occupant(id)
         IN IF e = NULL THEN [e |-> NULL, r |-> NotFound]
            ELSE IF checkperm /\ ~MayAccess(cur, e)
            THEN [e |-> NULL, r |-> PermissionDenied]
            ELSE [e |-> e, r |-> Resolved]

\* the identities a caller may pass
Envids == {Envid0} \cup [g : 1 .. MaxGen, i : EnvSlots]

Record(cur, id, checkperm, res) ==
    e_res' = [cur |-> cur, id |-> id, chk |-> checkperm, r |-> res.r]

eframe == <<env_ipc_recving, curenv, cpu_status, env_lock, pc, scan_begin,
            scan_cur, scan_cnt, since, steady, lvars, ivars, gvars, pvars,
            env_pgfault_upcall, upc, uva, uchild, uval, nforks, wvars, nvars>>

\* sys_exofork() called by the environment p
EExofork(p) ==
    /\ ~kpanic
    /\ env_status[p] = ENV_RUNNABLE
    /\ IF env_free_list = <<>>
       THEN UNCHANGED <<env_status, env_parent_id, env_free_list, mvars,
                        evars>>
       ELSE LET c == Head(env_free_list)
                v == env_setup_vm(M, c)
            IN /\ env_gen[c] < MaxGen
               /\ IF v.r < 0
                  THEN UNCHANGED <<env_status, env_parent_id, env_free_list,
                                   mvars, evars>>
                  ELSE /\ SetMem(v.m)
                       /\ env_free_list' = Tail(env_free_list)
                       /\ env_gen' = [env_gen EXCEPT ![c] = NextGen(@)]
                       /\ env_parent_id' = [env_parent_id EXCEPT ![c] = p]
                       /\ par_gen' = [par_gen EXCEPT ![c] = env_gen[p]]
                       /\ env_status' =
                              [env_status EXCEPT ![c] = ENV_NOT_RUNNABLE]
                       /\ UNCHANGED <<stale, e_res>>
    /\ UNCHANGED eframe

\* sys_env_set_status(envid, ENV_RUNNABLE) called by the environment cur
ESetStatus(cur, id) ==
    /\ ~kpanic
    /\ env_status[cur] = ENV_RUNNABLE
    /\ LET res == _envid2env(cur, id, TRUE)
       IN /\ Record(cur, id, TRUE, res)
          /\ IF res.r = Resolved
             THEN env_status' = [env_status EXCEPT ![res.e] = ENV_RUNNABLE]
             ELSE UNCHANGED env_status
    /\ UNCHANGED <<env_parent_id, env_free_list, mvars, env_gen, par_gen,
                   stale>>
    /\ UNCHANGED eframe

\* sys_env_destroy(envid) called by the environment cur; no environment is
\* running on another processor here, so _env_destroy frees the target
EDestroy(cur, id) ==
    /\ ~kpanic
    /\ env_status[cur] = ENV_RUNNABLE
    /\ LET res == _envid2env(cur, id, TRUE)
       IN /\ Record(cur, id, TRUE, res)
          /\ IF res.r = Resolved
             THEN /\ SetMem(env_free_mem(M, res.e))
                  /\ env_status' = [env_status EXCEPT ![res.e] = ENV_FREE]
                  /\ env_free_list' = <<res.e>> \o env_free_list
                  /\ stale' = stale \cup {EnvId(res.e)}
             ELSE UNCHANGED <<mvars, env_status, env_free_list, stale>>
    /\ UNCHANGED <<env_parent_id, env_gen, par_gen>>
    /\ UNCHANGED eframe

\* envid2env(envid, &e, checkperm) on behalf of the environment cur
ELookup(cur, id, checkperm) ==
    /\ ~kpanic
    /\ env_status[cur] = ENV_RUNNABLE
    /\ Record(cur, id, checkperm, _envid2env(cur, id, checkperm))
    /\ UNCHANGED <<env_status, env_parent_id, env_free_list, mvars, env_gen,
                   par_gen, stale>>
    /\ UNCHANGED eframe

EInit == FInit /\ PmapIdle

ENext ==
    \/ \E p \in EnvSlots : EExofork(p)
    \/ \E cur \in EnvSlots, id \in Envids : ESetStatus(cur, id)
    \/ \E cur \in EnvSlots, id \in Envids : EDestroy(cur, id)
    \/ \E cur \in EnvSlots, id \in Envids, checkperm \in BOOLEAN :
          ELookup(cur, id, checkperm)

SpecEnvid == EInit /\ [][ENext]_vars

(***************************************************************************)
(* The frame allocator alone: callers of page_alloc, page_decref and       *)
(* page_free.  page_free is applied to every frame, in use or free, so     *)
(* that its checks are what stands between a wrong call and the free list. *)
(***************************************************************************)
BootFirstFree == NFRAMES - BootFree

\* page_init: the frames from BootFirstFree on are free, the highest first
BootInit ==
    /\ env_status = [i \in EnvSlots |-> ENV_FREE]
    /\ env_parent_id = [i \in EnvSlots |-> NULL]
    /\ SchedIdle
    /\ UserInit
    /\ pp_ref = [f \in Frames |-> IF f < BootFirstFree THEN 1 ELSE 0]
    /\ pp_link = [f \in Frames |->
                     IF f > BootFirstFree THEN f - 1 ELSE NULL]
    /\ page_free_list = NFRAMES - 1
    /\ frame_data = [f \in Frames |-> 0]
    /\ env_pgdir = [i \in EnvSlots |-> NULL]
    /\ pgdir = [i \in EnvSlots |-> [d \in PDXs |-> NULL]]
    /\ pte = [i \in EnvSlots |-> [va \in VAs |-> NoPte]]
    /\ kpanic = FALSE
    /\ PmapIdle

bframe == <<kvars, uvars, gvars, ppc, p_pp, p_env, p_va, p_fresh, p_k,
            p_same>>

\* page_alloc(0) by a caller that keeps the frame: pp->pp_ref++
BAlloc ==
    /\ ~kpanic
    /\ nops < MaxOps
    /\ LET a == _page_alloc(M, FALSE)
       IN /\ a.pp # NULL
          /\ SetMem([a.m EXCEPT !.pp_ref[a.pp] = (@ + 1) % RefMod])
    /\ nops' = nops + 1
    /\ UNCHANGED bframe

\* page_decref(pp) by the holder of a reference
BDecref(pp) ==
    /\ ~kpanic
    /\ nops < MaxOps
    /\ pp >= BootFirstFree
    /\ pp_ref[pp] > 0
    /\ SetMem(_page_decref(M, pp))
    /\ nops' = nops + 1
    /\ UNCHANGED bframe

\* page_free(pp) for any frame
BFree(pp) ==
    /\ ~kpanic
    /\ nops < MaxOps
    /\ SetMem(_page_free(M, pp))
    /\ nops' = nops + 1
    /\ UNCHANGED bframe

BNext ==
    \/ BAlloc
    \/ \E pp \in Frames : BDecref(pp)
    \/ \E pp \in Frames : BFree(pp)

SpecFrames == BootInit /\ [][BNext]_vars

(***************************************************************************)
(* Sleeping until an interrupt (Lab 5 challenge): sys_wait_trap,           *)
(* wait_trap_handler and ide_wait_ready, on the processors and the         *)
(* scheduler of the kernel.  One environment uses the disk; its parent     *)
(* yields and sets the status of its child.                                *)
(***************************************************************************)
\* the environment that runs ide_read/ide_write: a child of environment 0
DiskUser == 1

\* what the steps of the disk and of its user leave alone
wkeeps == <<env_parent_id, env_ipc_recving, scan_begin, scan_cur, scan_cnt,
            mvars, uvars, gvars, pvars, lvars, evars, nvars, env_ipc_from,
            env_ipc_value, env_ipc_dstva, env_ipc_perm, snd, unm, g_dst,
            nsucc, nipc>>

\* processor c executes the user code of the disk's user
RunsDiskUser(c) == pc[c] = PcUser /\ curenv[c] = DiskUser

\* ide_read/ide_write after the ide_wait_ready(0) that opens them (the
\* device is idle when its only user starts): the outb's that program the
\* transfer.  The device is busy from the command on.
IdeCommand(c) ==
    /\ ~kpanic
    /\ RunsDiskUser(c)
    /\ w_pc[DiskUser] = WIdle
    /\ nide < MaxIde
    /\ ide_busy' = TRUE
    /\ w_pc' = [w_pc EXCEPT ![DiskUser] = WPoll]
    /\ nide' = nide + 1
    /\ UNCHANGED <<env_wait_trap, ide_irq, reg_eax, env_status, curenv,
                   cpu_status, env_lock, pc, since, steady, wkeeps>>

\* ide_wait_ready: while (((r = inb(0x1F7)) & (IDE_BSY|IDE_DRDY)) != IDE_DRDY)
\* The user reads the status register: busy, it goes on to call
\* sys_wait_trap; ready, it leaves the loop and transfers the sector.
IdeStatus(c) ==
    /\ ~kpanic
    /\ RunsDiskUser(c)
    /\ w_pc[DiskUser] = WPoll
    /\ w_pc' = [w_pc EXCEPT ![DiskUser] = IF ide_busy THEN WCall ELSE WIdle]
    /\ UNCHANGED <<env_wait_trap, ide_busy, ide_irq, nide, reg_eax,
                   env_status, curenv, cpu_status, env_lock, pc, since,
                   steady, wkeeps>>

\* the device ends the transfer: IDE_BSY goes, IDE_DRDY comes, IRQ_IDE is
\* raised
IdeComplete ==
    /\ ~kpanic
    /\ ide_busy
    /\ ide_busy' = FALSE
    /\ ide_irq' = TRUE
    /\ UNCHANGED <<env_wait_trap, w_pc, nide, reg_eax, env_status, curenv,
                   cpu_status, env_lock, pc, since, steady, wkeeps>>

\* the switch of sys_wait_trap: only IRQ_OFFSET + IRQ_IDE is accepted
wait_trap_accepts(trapno) == trapno = TrapIde

\* sys_wait_trap(trapno):
\*   switch (trapno) { case IRQ_OFFSET + IRQ_IDE: break;
\*                     default: return -E_INVAL; }
\*   spin_lock(&env_lock);
\*   assert(curenv->env_wait_trap == -1);
\*   curenv->env_wait_trap = trapno;
\*   curenv->env_status = ENV_NOT_RUNNABLE;
\*   spin_unlock(&env_lock); return 0;
\* The disk's user calls it from ide_wait_ready, having found the device
\* busy; on return it is at the inb of the loop again.  A failed assert is
\* a panic of the kernel, with env_lock held.
sys_wait_trap(c, trapno) ==
    /\ ~kpanic
    /\ pc[c] = PcDispatch
    /\ env_lock = NULL
    /\ curenv[c] # NULL
    /\ IF ~wait_trap_accepts(trapno)
       THEN /\ reg_eax' = [reg_eax EXCEPT ![curenv[c]] = E_INVAL]
            /\ pc' = [pc EXCEPT ![c] = PcRet]
            /\ UNCHANGED <<env_wait_trap, w_pc, env_status, env_lock,
                           since, steady, mvars>>
       ELSE /\ curenv[c] = DiskUser
            /\ w_pc[DiskUser] = WCall
            /\ IF env_wait_trap[curenv[c]] # NULL
               THEN /\ SetMem([M EXCEPT !.kpanic = TRUE])
                    /\ env_lock' = c
                    /\ UNCHANGED <<env_wait_trap, w_pc, env_status, pc,
                                   reg_eax, since, steady>>
               ELSE /\ env_wait_trap' =
                          [env_wait_trap EXCEPT ![curenv[c]] = trapno]
                    /\ env_status' =
                          [env_status EXCEPT ![curenv[c]] = ENV_NOT_RUNNABLE]
                    /\ reg_eax' = [reg_eax EXCEPT ![curenv[c]] = 0]
                    /\ w_pc' = [w_pc EXCEPT ![curenv[c]] = WPoll]
                    /\ pc' = [pc EXCEPT ![c] = PcRet]
                    /\ Unsteady
                    /\ UNCHANGED <<env_lock, mvars>>
    /\ UNCHANGED <<ide_busy, ide_irq, nide, curenv, cpu_status,
                   env_parent_id, env_ipc_recving, scan_begin, scan_cur,
                   scan_cnt, uvars, gvars, pvars, lvars, evars, nvars,
                   env_ipc_from,
                   env_ipc_value, env_ipc_dstva, env_ipc_perm, snd, unm,
                   g_dst, nsucc, nipc>>

\* the test of wait_trap_handler's loop for one slot of the table
Wakes(i, trapno) ==
    env_status[i] = ENV_NOT_RUNNABLE /\ env_wait_trap[i] = trapno

\* A processor in user mode or halted takes IRQ_IDE: trap() (which frees a
\* zombie curenv instead of dispatching), trap_dispatch with lapic_eoi and
\* the EOI to the slave PIC, then wait_trap_handler(tf):
\*   spin_lock(&env_lock);
\*   for every slot e with env_status == ENV_NOT_RUNNABLE and
\*       env_wait_trap == tf->tf_trapno:
\*       e->env_wait_trap = -1; e->env_tf.tf_regs.reg_eax = 0;
\*       e->env_status = ENV_RUNNABLE;
\*   spin_unlock(&env_lock);
\* and back in trap() for the return to user mode.
wait_trap_handler(c) ==
    /\ ~kpanic
    /\ ide_irq
    /\ pc[c] \in {PcUser, PcHalted}
    /\ env_lock = NULL
    /\ ide_irq' = FALSE
    /\ cpu_status' = [cpu_status EXCEPT ![c] = CPU_STARTED]
    /\ IF curenv[c] # NULL /\ env_status[curenv[c]] = ENV_DYING
       THEN /\ pc' = [pc EXCEPT ![c] = PcDying]
            /\ UNCHANGED <<env_wait_trap, reg_eax, env_status, since, steady>>
       ELSE /\ env_wait_trap' = [i \in EnvSlots |->
                                   IF Wakes(i, TrapIde) THEN NULL
                                   ELSE env_wait_trap[i]]
            /\ reg_eax' = [i \in EnvSlots |->
                             IF Wakes(i, TrapIde) THEN 0 ELSE reg_eax[i]]
            /\ env_status' = [i \in EnvSlots |->
                                IF Wakes(i, TrapIde) THEN ENV_RUNNABLE
                                ELSE env_status[i]]
            /\ pc' = [pc EXCEPT ![c] = PcRet]
            /\ Unsteady
    /\ UNCHANGED <<ide_busy, w_pc, nide, curenv, env_lock, wkeeps>>

\* sys_env_set_status(child, st) by the parent of the disk's user, at a
\* moment when the child is not running on any processor
WSetStatus(c, st) ==
    /\ env_status[DiskUser] # ENV_RUNNING
    /\ sys_env_set_status(c, DiskUser, st)

\* two environments are in use: environment 0 runs, its child is RUNNABLE
WInit ==
    /\ KInit
    /\ env_status[DiskUser] = ENV_RUNNABLE
    /\ \A i \in EnvSlots : i > DiskUser => env_status[i] = ENV_FREE
    /\ KMemInit
    /\ UserInitFrom(InUse)
    /\ PmapIdle

\* the steps of processor c: timer interrupts and sys_yield, the disk
\* operation of the environment it runs, sys_wait_trap, IRQ_IDE, and
\* sys_env_set_status on the disk's user by its parent
WStep(c) ==
    \/ Trap(c)
    \/ TimerHalted(c)
    \/ YieldLock(c)
    \/ ScanInTable(c)
    \/ AfterScan(c)
    \/ TrapTail(c)
    \/ IdeCommand(c)
    \/ IdeStatus(c)
    \/ \E trapno \in {TrapIde, TrapOther} : sys_wait_trap(c, trapno)
    \/ wait_trap_handler(c)
    \/ \E st \in SettableStatus : WSetStatus(c, st)

WNext ==
    \/ \E c \in CPUs : WStep(c)
    \/ IdeComplete

SpecWait == WInit /\ [][WNext]_vars

\* every processor takes its steps, the device ends the transfer it was
\* given, and an interrupt that is raised is taken by a processor as soon as
\* one is interruptible with env_lock free
SpecWaitFair ==
    /\ WInit
    /\ [][WNext]_vars
    /\ \A c \in CPUs : WF_vars(WStep(c))
    /\ WF_vars(IdeComplete)
    /\ SF_vars(\E c \in CPUs : wait_trap_handler(c))

(***************************************************************************)
(* Functions on numbers: _ipow (inc/math.h) on words of WordBits bits and  *)
(* user_mem_check (kern/pmap.c) on addresses of AddrBits bits.             *)
(***************************************************************************)
\* what the calls of these functions leave alone
nframe == <<env_status, env_parent_id, env_ipc_recving, curenv, cpu_status,
            env_lock, pc, scan_begin, scan_cur, scan_cnt, since, steady,
            lvars, ivars, evars, wvars, mvars, uvars, gvars, pvars>>

\* unsigned long long arithmetic is modulo 2^WordBits
Word == 2 ^ WordBits
Words == 0 .. (Word - 1)

\* if (exp & 1) result *= base;
ipow_mul_always(result, base, exp) == (result * base) % Word

ipow_mul(result, base, exp) ==
    IF exp % 2 = 1 THEN (result * base) % Word ELSE result

\* the step of the for loop: exp >>= 1, base *= base
ipow_shift(exp) == exp \div 2
ipow_square(base) == (base * base) % Word

\* _ipow(base, exp) is entered: unsigned long long result = 1;
IpowCall(b, e) ==
    /\ ip_pc \in {IpNone, IpDone}
    /\ ip_pc' = IpLoop
    /\ ip_b0' = b
    /\ ip_e0' = e
    /\ ip_base' = b
    /\ ip_exp' = e
    /\ ip_result' = 1
    /\ ip_n' = 0
    /\ UNCHANGED <<um_va, um_len, um_perm, um_res, nframe>>

\* for (; exp; exp >>= 1, base *= base) { if (exp & 1) result *= base; }
\* return result;
IpowStep ==
    /\ ip_pc = IpLoop
    /\ IF ip_exp = 0
       THEN /\ ip_pc' = IpDone
            /\ UNCHANGED <<ip_base, ip_exp, ip_result, ip_n>>
       ELSE /\ ip_result' = ipow_mul(ip_result, ip_base, ip_exp)
            /\ ip_exp' = ipow_shift(ip_exp)
            /\ ip_base' = ipow_square(ip_base)
            /\ ip_n' = ip_n + 1
            /\ UNCHANGED ip_pc
    /\ UNCHANGED <<ip_b0, ip_e0, um_va, um_len, um_perm, um_res, nframe>>

PowInit == FInit /\ PmapIdle

PowNext ==
    \/ \E b \in Words, e \in Words : IpowCall(b, e)
    \/ IpowStep

SpecIpow == PowInit /\ [][PowNext]_vars

\* uintptr_t arithmetic is modulo 2^AddrBits
AddrSpace == 2 ^ AddrBits
Addrs == 0 .. (AddrSpace - 1)
PGSIZE == 4
ULIM == 24

\* ROUNDDOWN(a, n) and ROUNDUP(a, n) of inc/types.h, on 32-bit values
ROUNDDOWN(a, n) == a - (a % n)
ROUNDUP(a, n) == ROUNDDOWN((a + n - 1) % AddrSpace, n)

\* The page table of the environment that is checked, by page number:
\* page 0 is not mapped, page 1 is read-only for the user, pages 2 and 3 are
\* writable for the user, page 4 is mapped for the kernel only, page 5 is not
\* mapped, and the pages from ULIM on are the kernel's.
UmPte(pg) ==
    CASE pg = 1 -> {PTE_P, PTE_U}
      [] pg \in {2, 3} -> {PTE_P, PTE_U, PTE_W}
      [] pg \in {0, 5} -> {}
      [] OTHER -> {PTE_P, PTE_W}

\* cur >= ULIM || pte == NULL || !(*pte & PTE_P) || (*pte & perm) != perm
um_fails(cur, perm) ==
    \/ cur >= ULIM
    \/ PTE_P \notin UmPte(cur \div PGSIZE)
    \/ ~(perm \subseteq UmPte(cur \div PGSIZE))

\* for (; cur < end; cur += PGSIZE) { if (...) return -E_FAULT; } return 0;
RECURSIVE um_loop(_, _, _)
um_loop(cur, end, perm) ==
    IF cur < end
    THEN IF um_fails(cur, perm) THEN E_FAULT
         ELSE um_loop((cur + PGSIZE) % AddrSpace, end, perm)
    ELSE 0

\* user_mem_check(env, va, len, perm):
\*   cur = ROUNDDOWN(va, PGSIZE); end = ROUNDUP(va + len, PGSIZE);
user_mem_check(va, len, perm) ==
    um_loop(ROUNDDOWN(va, PGSIZE), ROUNDUP((va + len) % AddrSpace, PGSIZE),
            perm)

\* the values of perm the kernel passes: user_mem_assert adds PTE_U
UmPerms == {{PTE_P, PTE_U}, {PTE_P, PTE_U, PTE_W}}

\* a system call checks the range [va, va + len) of its caller
UmcCall(va, len, perm) ==
    /\ um_va' = va
    /\ um_len' = len
    /\ um_perm' = perm
    /\ um_res' = user_mem_check(va, len, perm)
    /\ UNCHANGED <<ip_pc, ip_b0, ip_e0, ip_base, ip_exp, ip_result, ip_n,
                   nframe>>

UmcInit == FInit /\ PmapIdle

UmcNext == \E va \in Addrs, len \in Addrs, perm \in UmPerms :
              UmcCall(va, len, perm)

SpecUmc == UmcInit /\ [][UmcNext]_vars

Init == KInit /\ KMemInit /\ UserInitFrom(InUse) /\ PmapIdle

Next == KNext

Spec == Init /\ [][Next]_vars

\* the kernel with every processor taking its steps: a processor in user mode
\* is interrupted by its timer, a processor in the kernel runs on
SpecFair == Init /\ [][Next]_vars /\ \A c \in CPUs : WF_vars(KStep(c))

\* environments running fork, pgfault and stores
ForkInit == FInit /\ PmapIdle

SpecFork == ForkInit /\ [][FNext]_vars

\* processors calling the pmap interface
SpecPmap == PInit /\ [][PNext]_vars

\* processors taking and releasing the three locks along kernel entries
SpecLocks == LInit /\ [][LNext]_vars

\* the IPC system calls
SpecIpc == IInit /\ [][INext]_vars

(***************************************************************************)
(* Claims about the kernel (specification Spec)                            *)
(***************************************************************************)
\* C1: no environment is the current environment of two processors at once.
\* Stated for its plainest case: the two processors are both in user mode,
\* executing the environment.
C1_OneProcessorPerEnv ==
    \A c1, c2 \in CPUs :
        (c1 # c2 /\ pc[c1] = PcUser /\ pc[c2] = PcUser)
            => curenv[c1] # curenv[c2]

\* The slots sched_yield should walk: circular order starting just after
\* the slot of the processor's current environment (slot 0 if it has none).
CircStart(cv) == IF cv = NULL THEN 0 ELSE (ENVX(cv) + 1) % NENV
CircDist(from, to) == (to - from + NENV) % NENV

\* C8: sched_yield dispatches the first RUNNABLE environment of the circular
\* order that starts just after curenv's slot: the environment its scan
\* dispatches was RUNNABLE and no slot before it in that order was RUNNABLE.
C8_FirstRunnableInCircularOrder ==
    [][\A c \in CPUs :
         (pc[c] = PcScan /\ pc'[c] = PcUser) =>
            /\ env_status[curenv'[c]] = ENV_RUNNABLE
            /\ \A k \in 0 .. (NENV - 1) :
                  k < CircDist(CircStart(curenv[c]), curenv'[c]) =>
                     env_status[(CircStart(curenv[c]) + k) % NENV]
                        # ENV_RUNNABLE]_vars

\* C9: a call of sched_yield examines at most NENV slots.
C9_ScanExaminesAtMostNENV ==
    \A c \in CPUs : scan_cnt[c] <= NENV

NoneRunnable == \A i \in EnvSlots : env_status[i] # ENV_RUNNABLE

\* C10 (first half): when sched_yield has examined more than NENV slots, no
\* slot of the table is RUNNABLE and this processor's curenv is still
\* RUNNING, its next step dispatches curenv again.
C10_RedispatchWhenNoneRunnable ==
    [][\A c \in CPUs :
         (/\ pc[c] \in {PcScan, PcAfterScan}
          /\ pc'[c] # pc[c] \/ scan_cur'[c] # scan_cur[c]
          /\ scan_cnt[c] > NENV
          /\ NoneRunnable
          /\ curenv[c] # NULL
          /\ env_status[curenv[c]] = ENV_RUNNING)
         => (pc'[c] = PcUser /\ curenv'[c] = curenv[c])]_vars

\* C12: a processor that is executing user code, or is halted, does not
\* hold env_lock.
C12_NoLockInUserOrHalted ==
    \A c \in CPUs : pc[c] \in {PcUser, PcHalted} => env_lock # c

\* the processor that started halted has been woken, has taken env_lock,
\* has dispatched an environment and runs it while the other processor is
\* in the scheduler with the lock
C12_Witness ==
    /\ pc[1] = PcUser
    /\ curenv[1] # NULL
    /\ pc[0] = PcScan
    /\ env_lock = 0

\* the places where a processor is about to call spin_lock(&env_lock):
\* the end of trap(), the timer/sys_yield path, every system call that
\* takes the lock, and env_free(curenv) for a zombie
AcquiresEnvLock == {PcRet, PcYieldLock, PcDispatch, PcDying}

\* C13: no processor is about to acquire env_lock while it holds env_lock;
\* in particular a system call has released the lock when it returns into
\* trap().
C13_NoRecursiveEnvLock ==
    \A c \in CPUs : pc[c] \in AcquiresEnvLock => env_lock # c

\* the place of a lock in the order env_lock, pmap_lock, cons_lock
LockRank(l) == IF l = LkEnv THEN 1 ELSE IF l = LkPmap THEN 2 ELSE 3

\* processor c is at spin_lock(l)
AtSpinLock(c, l) ==
    /\ lk_todo[c] # <<>>
    /\ Head(lk_todo[c]).op = OpAcq
    /\ Head(lk_todo[c]).lk = l

\* C14: a processor at spin_lock(l) holds no lock that comes after l in the
\* order env_lock, pmap_lock, cons_lock; and no two processors wait for a
\* lock the other one holds.
C14_LockOrder ==
    /\ \A c \in CPUs : \A l \in Locks :
          AtSpinLock(c, l) =>
              \A h \in HeldBy(c) : LockRank(h) <= LockRank(l)
    /\ \A c1, c2 \in CPUs : \A l1, l2 \in Locks :
          ~(/\ c1 # c2
            /\ AtSpinLock(c1, l1) /\ lk_holder[l1] = c2
            /\ AtSpinLock(c2, l2) /\ lk_holder[l2] = c1)

\* one processor holds env_lock and is at spin_lock(&pmap_lock) while the
\* other processor holds pmap_lock
C14_Witness ==
    \E c1, c2 \in CPUs :
        /\ HeldBy(c1) = {LkEnv}
        /\ AtSpinLock(c1, LkPmap)
        /\ HeldBy(c2) = {LkPmap}

\* the environments that can run
Runnables == {e \in EnvSlots : env_status[e] \in {ENV_RUNNABLE, ENV_RUNNING}}

\* C11: while the K environments stay runnable (none has blocked, exited or
\* been created), no waiting environment has been passed over by K calls
\* of sched_yield in a row: each of the K is dispatched within any K
\* consecutive calls.
C11_DispatchedWithinK ==
    steady => \A e \in Runnables : since[e] < Cardinality(Runnables)

(***************************************************************************)
(* Claims about fork and copy-on-write (specification SpecFork)            *)
(***************************************************************************)
\* C2: write isolation after fork.  For a child whose fork has returned
\* and every page that was writable or copy-on-write in the parent at the
\* fork: as long as the child has not stored to the page it reads the byte
\* it read when fork returned, and as long as the parent has not stored to
\* the page it reads the byte it read when fork returned, whatever any
\* other environment has stored.
C2_WriteIsolation ==
    \A c \in EnvSlots :
        g_parent[c] # NULL =>
            \A va \in StorePages :
                /\ (snapC[c][va] # NULL /\ va \notin dirtyC[c])
                       => View(M, c, va) = snapC[c][va]
                /\ (snapP[c][va] # NULL /\ va \notin dirtyP[c])
                       => View(M, g_parent[c], va) = snapP[c][va]

\* the parent has stored a new byte and the child still reads the old one
C2_Witness ==
    \E c \in EnvSlots :
        /\ g_parent[c] # NULL
        /\ UDATA \in dirtyP[c]
        /\ UDATA \notin dirtyC[c]
        /\ snapC[c][UDATA] # NULL
        /\ View(M, g_parent[c], UDATA) # snapP[c][UDATA]
        /\ View(M, c, UDATA) = snapC[c][UDATA]

\* environment p is inside duppage of page va for child c, between the
\* map into the child and the remap of its own page
InDuppage(p, va, c) ==
    upc[p] = UpcDupSelf /\ uva[p] = va /\ uchild[p] = c

\* C3: a frame mapped by two environments is mapped writable by neither,
\* outside the duppage call that is sharing it.
C3_SharedFrameNotWritable ==
    \A e1, e2 \in EnvSlots :
        \A va1, va2 \in VAs :
            (/\ e1 # e2
             /\ _page_lookup(M, e1, va1) # NULL
             /\ _page_lookup(M, e1, va1) = _page_lookup(M, e2, va2)
             /\ ~InDuppage(e1, va1, e2))
                => ~pte[e1][va1].w

\* two environments share a frame copy-on-write while a third environment
\* has resolved its fault on that page and holds a private writable copy
C3_Witness ==
    \E e1, e2, e3 \in EnvSlots :
        /\ e1 # e2 /\ e3 \notin {e1, e2}
        /\ pte[e1][UDATA].f # NULL
        /\ pte[e1][UDATA].f = pte[e2][UDATA].f
        /\ pte[e1][UDATA].cow /\ pte[e2][UDATA].cow
        /\ pte[e3][UDATA].f # NULL
        /\ pte[e3][UDATA].w
        /\ UDATA \in dirtyC[e3] \cup dirtyP[e1] \cup dirtyP[e2]

\* C4: when fork has returned in the parent and the child has not stored
\* since, every page below USTACKTOP that is present in the parent is
\* present in the child and both read the same byte there.
C4_IdenticalAfterFork ==
    \A p \in EnvSlots :
        (/\ upc[p] = UpcForkRet
         /\ g_parent[uchild[p]] = p
         /\ dirtyC[uchild[p]] = {})
            => \A i \in 1 .. Len(BelowUSTACKTOP) :
                  View(M, p, BelowUSTACKTOP[i]) # NULL =>
                      View(M, uchild[p], BelowUSTACKTOP[i])
                          = View(M, p, BelowUSTACKTOP[i])

\* C5: no page table entry has both PTE_COW and PTE_W.
C5_NeverCowAndWritable ==
    \A e \in EnvSlots : \A va \in VAs : ~(pte[e][va].cow /\ pte[e][va].w)

\* fork has marked a page copy-on-write in one environment and pgfault has
\* given another environment its writable copy of that page
C5_Witness ==
    \E e1, e2 \in EnvSlots :
        /\ pte[e1][UDATA].f # NULL /\ pte[e1][UDATA].cow
        /\ pte[e2][UDATA].f # NULL /\ pte[e2][UDATA].w
        /\ pte[e2][UDATA].f # pte[e1][UDATA].f
        /\ upc[e2] = UpcRetry

(***************************************************************************)
(* Claims about the frame allocator (specification SpecPmap)               *)
(***************************************************************************)
\* the page table and page directory entries that reference frame f
Entries(f) ==
    Cardinality({x \in EnvSlots \X VAs : pte[x[1]][x[2]].f = f})
    + Cardinality({x \in EnvSlots \X PDXs : pgdir[x[1]][x[2]] = f})

\* the entries there are in all address spaces
EntrySlots == NENV * (Cardinality(VAs) + Cardinality(PDXs))

RECURSIVE FreeFrom(_, _)
FreeFrom(f, n) ==
    IF f = NULL \/ n = 0
    THEN {}
    ELSE {f} \cup FreeFrom(pp_link[f], n - 1)

FreeFrames == FreeFrom(page_free_list, NFRAMES)

\* C7 (one direction): a frame on the free list has reference count 0 and
\* no present entry references it.
C7_FreeFramesUnreferenced ==
    \A f \in FreeFrames : pp_ref[f] = 0 /\ Entries(f) = 0

(***************************************************************************)
(* Claims about IPC (specification SpecIpc)                                *)
(***************************************************************************)
\* the IPC fields of the environments, without the saved %eax
IpcFields == <<env_status, env_ipc_recving, env_ipc_from, env_ipc_value,
               env_ipc_dstva, env_ipc_perm>>

\* a step in which environment s can have entered sys_ipc_try_send: what
\* ISendBegin requires of the two states apart from the call's effect
SendEntered(s) ==
    /\ CanCall(s)
    /\ snd = NoSend
    /\ unm' = unm
    /\ g_dst' = g_dst

\* C15: a sys_ipc_try_send to an environment whose env_ipc_recving is 0
\* returns -E_IPC_NOT_RECV in the same step (nothing is left in progress or
\* queued), and leaves every field of the target and of the sender and
\* every page mapping as it was; only the sender's saved %eax takes the
\* result.
C15_NotReceivingChangesNothing ==
    [][\A s \in Senders, t \in IpcEnvs :
          (/\ env_status[t] # ENV_FREE
           /\ ~env_ipc_recving[t]
           /\ SendEntered(s)
           /\ \E value \in 0 .. MaxVal, srcva \in SrcVAs, perm \in SendPerms :
                 ISendBegin(s, t, value, srcva, perm))
          => /\ reg_eax'[s] = E_IPC_NOT_RECV
             /\ nipc' = nipc + 1
             /\ snd' = NoSend
             /\ UNCHANGED <<IpcFields, mvars, nsucc>>
             /\ \A e \in EnvSlots : e # s => reg_eax'[e] = reg_eax[e]]_vars

\* a send has returned -E_IPC_NOT_RECV after another send had been received
C15_Witness ==
    \E s \in IpcEnvs, t \in IpcEnvs :
        /\ reg_eax[s] = E_IPC_NOT_RECV
        /\ env_ipc_from[t] # NULL
        /\ ~env_ipc_recving[t]

\* what C16 promises the target t of a successful send of value by s
Delivered(s, t, value) ==
    /\ env_ipc_value'[t] = value
    /\ env_ipc_from'[t] = s
    /\ ~env_ipc_recving'[t]
    /\ env_status'[t] = ENV_RUNNABLE
    /\ reg_eax'[t] = 0

C18_PageOnlyIfBothAsked ==
    [][ISendEnd
       => ((pte'[snd.t] # pte[snd.t] \/ pgdir'[snd.t] # pgdir[snd.t])
           => /\ BelowUTOP(snd.srcva)
              /\ BelowUTOP(g_dst[snd.t]))]_vars

\* C19: a page transferred by IPC is never mapped in the receiver with more
\* access than the sender has to it: when a send returns 0 after mapping a
\* page at the target's destination, the frame mapped is the one the sender
\* has mapped at srcva, and the target's mapping is writable only if the
\* sender's is.
C19_NoMoreAccessThanSender ==
    [][(/\ ISendEnd
        /\ reg_eax'[snd.s] = 0
        /\ BelowUTOP(env_ipc_dstva[snd.t]))
       => /\ pte[snd.s][snd.srcva].f
                = pte'[snd.t][env_ipc_dstva[snd.t]].f
          /\ pte'[snd.t][env_ipc_dstva[snd.t]].w
                => pte[snd.s][snd.srcva].w]_vars

\* the steps in which a system call is entered with an address at or above
\* UTOP: sys_page_unmap by u (its envid accepted), sys_ipc_recv by e, and
\* sys_ipc_try_send by s to an awaiting t
UnmapAbove(u) ==
    /\ CanCall(u)
    /\ snd = NoSend
    /\ envid2env_r(K, u, Unmapped, TRUE) = 0
    /\ IUnmapBegin(u, Unmapped, AboveUTOP)
RecvAbove(e) ==
    /\ CanCall(e)
    /\ snd = NoSend
    /\ IRecv(e, AboveUTOP)
SendAbove(s, t) ==
    /\ env_ipc_recving[t]
    /\ SendEntered(s)
    /\ \E value \in 0 .. MaxVal, perm \in SendPerms :
          ISendBegin(s, t, value, AboveUTOP, perm)

C21_DyingIsLazy ==
    [][/\ \A c \in CPUs, e \in EnvSlots :
             (/\ pc[c] = PcDispatch
              /\ envid2env_ok(c, e, TRUE)
              /\ env_status[e] = ENV_RUNNING
              /\ curenv[c] # e
              /\ sys_env_destroy(c, e))
             => /\ env_status' = [env_status EXCEPT ![e] = ENV_DYING]
                /\ UNCHANGED <<mvars, env_free_list, curenv, cpu_status>>
                /\ \A d \in CPUs : d # c => pc'[d] = pc[d]
       /\ \A e \in EnvSlots :
             (env_status[e] = ENV_DYING /\ env_status'[e] = ENV_FREE)
             => \E c \in CPUs : /\ curenv[c] = e
                                 /\ pc[c] \in {PcDying, PcDispatch}
                                 /\ pc'[c] # pc[c]]_vars

\* C22: with every processor taking timer interrupts, an environment that is
\* ENV_DYING eventually becomes ENV_FREE, also when it was marked while its
\* own processor was already inside the kernel on its behalf, past the
\* ENV_DYING check of trap(), and that processor then reschedules or halts.
\* Stated for the behaviours in which env_lock keeps being released: there
\* no environment stays ENV_DYING for ever.
C22_DyingEventuallyFree ==
    \A e \in EnvSlots :
        <>[](env_status[e] = ENV_DYING) => <>[](env_lock # NULL)

Above(S) ==
    {p \in EnvSlots : \E x \in S : /\ p = env_parent_id[x]
                                   /\ env_status[p] # ENV_FREE
                                   /\ env_gen[p] = par_gen[x]}

SelfAndAncestors(e) ==
    LET s1 == {e} \cup Above({e})
        s2 == s1 \cup Above(s1)
        s3 == s2 \cup Above(s2)
    IN s3

XstackFailed(e) == upc[e] = UpcPanic /\ uchild[e] # NULL

\* C25: when the allocation of the child's exception stack fails for lack
\* of memory during fork, the fork is undone as a whole: the child's slot is
\* ENV_FREE again, the child references no frame (it has no page directory,
\* no page table and no page), and the child is never scheduled.
C25_FailedForkLeavesNoChild ==
    \A e \in EnvSlots :
        XstackFailed(e) =>
            /\ env_status[uchild[e]] = ENV_FREE
            /\ env_pgdir[uchild[e]] = NULL
            /\ \A d \in PDXs : pgdir[uchild[e]][d] = NULL
            /\ \A va \in VAs : pte[uchild[e]][va] = NoPte

\* fork of e is between sys_exofork and its final sys_env_set_status
InFork(e) ==
    /\ uchild[e] # NULL
    /\ upc[e] \in {UpcDupChild, UpcDupSelf, UpcXstack, UpcUpcall, UpcStatus}

\* C26: from sys_exofork until the final sys_env_set_status(child,
\* ENV_RUNNABLE) of fork the child is never RUNNABLE or RUNNING, and that
\* call is made only when every page of the parent below USTACKTOP is mapped
\* in the child, the child's exception stack is mapped and its page fault
\* upcall is set.
C26_ChildRunnableOnlyWhenComplete ==
    /\ [](\A e \in EnvSlots :
             InFork(e) => env_status[uchild[e]] = ENV_NOT_RUNNABLE)
    /\ [][\A e \in EnvSlots :
             (upc[e] = UpcStatus /\ upc'[e] = UpcForkRet)
             => /\ env_status[uchild[e]] = ENV_NOT_RUNNABLE
                /\ env_status'[uchild[e]] = ENV_RUNNABLE
                /\ \A i \in 1 .. Len(BelowUSTACKTOP) :
                      _page_lookup(M, e, BelowUSTACKTOP[i]) # NULL =>
                          _page_lookup(M, uchild[e], BelowUSTACKTOP[i]) # NULL
                /\ _page_lookup(M, uchild[e], UXSTACK) # NULL
                /\ env_pgfault_upcall[uchild[e]]]_vars

\* the exception stack of e is a frame of its own: one reference, writable,
\* not copy-on-write, and in no other entry of any address space
PrivateXstack(e) ==
    LET x == pte[e][UXSTACK]
    IN /\ x.f # NULL
       /\ pp_ref[x.f] = 1
       /\ x.w
       /\ ~x.cow
       /\ \A o \in EnvSlots, va \in VAs :
             <<o, va>> # <<e, UXSTACK>> => pte[o][va].f # x.f

\* C27: when fork has set the child RUNNABLE, the child's exception stack
\* page is a frame of its own with reference count 1, writable, not
\* copy-on-write and mapped by no other environment, and it stays so; fork
\* never marks the parent's exception stack copy-on-write and never maps it
\* into the child.
C27_XstackNeverShared ==
    /\ \A c \in EnvSlots :
          (g_parent[c] # NULL /\ env_status[c] # ENV_FREE) => PrivateXstack(c)
    /\ \A e \in EnvSlots :
          pte[e][UXSTACK].f # NULL => PrivateXstack(e)

\* a fork has returned and parent and child each have their exception stack
C27_Witness ==
    \E p \in EnvSlots :
        /\ upc[p] = UpcForkRet
        /\ g_parent[uchild[p]] = p
        /\ pte[p][UXSTACK].f # NULL
        /\ pte[uchild[p]][UXSTACK].f # NULL

\* pgfault of e is entered for a fault it must refuse
BadFault(e) ==
    /\ env_status[e] = ENV_RUNNABLE
    /\ upc[e] = UpcPgfault
    /\ (uval[e] = NULL \/ ~pte[e][uva[e]].cow)

\* C28: pgfault entered for a fault that is not a write, or for an address
\* whose page table entry is not copy-on-write, stops in panic before any
\* page is allocated, mapped or unmapped: no reference count, free list or
\* page table entry changes.
C28_BadFaultChangesNothing ==
    [][\A e \in EnvSlots :
          (BadFault(e) /\ upc'[e] # upc[e])
          => upc'[e] = UpcPanic /\ UNCHANGED mvars]_vars

\* pgfault has refused a fault: a store to a page that is not copy-on-write
\* or a load
C28_Witness ==
    \E e \in EnvSlots :
        /\ upc[e] = UpcPanic
        /\ uchild[e] = NULL
        /\ uva[e] # NoVA
        /\ ~pte[e][uva[e]].cow

(***************************************************************************)
(* Claims about the frame allocator (specification SpecPmap)               *)
(***************************************************************************)
\* the memory inside page_insert after pp_ref++ and after _page_remove
AfterIncref(c) == page_insert_incref(M, p_pp[c])
AfterRemove(c) == page_insert_displace(AfterIncref(c), p_env[c], p_va[c])

\* C29: page_insert of a frame at an address where the same frame is already
\* mapped in the same address space leaves pp_ref of the frame as it was and
\* does not put the frame on the free list, neither when it returns nor
\* between its pp_ref++ and its _page_remove.
C29_ReinsertKeepsFrame ==
    [][\A c \in CPUs :
          (Reinsert(c) /\ ppc'[c] # ppc[c])
          => /\ pp_ref'[p_pp[c]] = pp_ref[p_pp[c]]
             /\ pte'[p_env[c]][p_va[c]].f = p_pp[c]
             /\ ~OnFreeList(AfterIncref(c), p_pp[c])
             /\ ~OnFreeList(AfterRemove(c), p_pp[c])
             /\ AfterRemove(c).pp_ref[p_pp[c]] > 0
             /\ ~OnFreeList([pp_link |-> pp_link',
                             page_free_list |-> page_free_list'],
                            p_pp[c])]_vars

\* a page_insert has put back the frame that was already mapped at its
\* address, and the frame is still mapped and counted
C29_Witness ==
    /\ p_same # NULL
    /\ pp_ref[p_same] > 0
    /\ \E e \in PmapEnvs, va \in PmapPages : pte[e][va].f = p_same
    /\ ~OnFreeList(M, p_same)

\* C30: page_free of a frame whose reference count is not zero, or of a
\* frame that is already on the free list, stops in panic and does not link
\* the frame into the free list again, whether the frame is the head, in the
\* middle or the last element of the list.
C30_BadFreeStops ==
    [][\A pp \in Frames :
          (/\ ~kpanic
           /\ nops' = nops + 1
           /\ pp_ref[pp] # 0 \/ OnFreeList(M, pp)
           /\ <<pp_ref', pp_link', page_free_list', kpanic'>> =
                  LET m == _page_free(M, pp)
                  IN <<m.pp_ref, m.pp_link, m.page_free_list, m.kpanic>>)
          => /\ kpanic'
             /\ UNCHANGED <<pp_link, page_free_list>>]_vars

(***************************************************************************)
(* Claims about sleeping until an interrupt (specification SpecWait)       *)
(***************************************************************************)
\* C31: the assert of sys_wait_trap never fails, and an environment that
\* executes user code carries no pending wait (env_wait_trap is -1), also
\* after another environment changed its status with sys_env_set_status
\* while it was waiting for the interrupt.
C31_WaitAssertHolds ==
    /\ ~kpanic
    /\ \A c \in CPUs :
          (pc[c] = PcUser /\ curenv[c] \in EnvSlots)
          => env_wait_trap[curenv[c]] = NULL

\* the environment sleeps in sys_wait_trap for the disk's interrupt
Sleeping(e) ==
    env_status[e] = ENV_NOT_RUNNABLE /\ env_wait_trap[e] = TrapIde

\* C32: an environment that found the device busy in ide_wait_ready and
\* sleeps in sys_wait_trap for IRQ_IDE does not sleep for ever: it is made
\* RUNNABLE again, also when the interrupt of its operation was handled
\* between its read of the device status and the moment sys_wait_trap
\* recorded the wait.
C32_SleeperWoken ==
    Sleeping(DiskUser) ~> (~Sleeping(DiskUser) \/ kpanic)

(***************************************************************************)
(* Claims about the functions on numbers (SpecIpow, SpecUmc)               *)
(***************************************************************************)
\* base to the power exp, modulo the word size, by its definition
RECURSIVE Pow(_, _)
Pow(b, e) == IF e = 0 THEN 1 % Word ELSE (b * Pow(b, e - 1)) % Word

\* C33: _ipow(base, exp) returns base to the power exp reduced modulo the
\* word size, for every base and exp of the word size; _ipow(b, 0) is 1; and
\* the loop makes at most as many iterations as a word has bits.
C33_IpowIsPower ==
    /\ ip_n <= WordBits
    /\ ip_pc = IpDone
       => /\ ip_result = Pow(ip_b0, ip_e0)
          /\ ip_e0 = 0 => ip_result = 1

\* _ipow has returned from a call with the largest exponent, after one
\* iteration for every bit of the word, with a result that is not 0 or 1
C33_Witness ==
    /\ ip_pc = IpDone
    /\ ip_e0 = Word - 1
    /\ ip_n = WordBits
    /\ ip_b0 = 3
    /\ ip_result = Pow(3, Word - 1)
    /\ ip_result > 1

\* the range [va, va + len) has an address at or above ULIM, or on a page
\* that is not present with all bits of perm
RangeBad(va, len, perm) ==
    \E a \in va .. (va + len - 1) : a >= ULIM \/ um_fails(a, perm)

\* C38: user_mem_check returns -E_FAULT whenever the range [va, va + len)
\* contains an address at or above ULIM or a page that is not present with
\* all bits of perm, also when va + len wraps around the address size; it
\* returns 0 only when every page of the range passed the check.
C38_UserMemCheckRejects ==
    RangeBad(um_va, um_len, um_perm) => um_res = E_FAULT

(***************************************************************************)
(* Claims about fork and pgfault, continued (specification SpecFork)       *)
(***************************************************************************)
\* environment p holds a writable mapping, at va, of a frame that
\* environment c maps as well
WritableSharer(p, c, va) ==
    /\ p # c
    /\ pte[p][va].f # NULL
    /\ pte[p][va].w
    /\ \E vb \in VAs : pte[c][vb].f = pte[p][va].f

\* p is between the two sys_page_map calls of duppage(c, va)
InsideDuppage(p, c, va) ==
    upc[p] = UpcDupSelf /\ uchild[p] = c /\ uva[p] = va

\* a step downgrades the mapping of p at va from writable or copy-on-write
\* to copy-on-write, as the second sys_page_map of duppage does
Downgrades(p, va) ==
    /\ upc[p] = UpcDupSelf
    /\ uva[p] = va
    /\ upc'[p] # upc[p]

\* the child of p maps the frame of va copy-on-write
ChildHasCow(p, va) ==
    /\ uchild[p] # NULL
    /\ pte[uchild[p]][va].f = pte[p][va].f
    /\ pte[uchild[p]][va].cow
    /\ ~pte[uchild[p]][va].w

\* C34 as stated: in fork the child's copy-on-write mapping of a page is
\* installed before the parent's own mapping is downgraded, and at every
\* point at which the child maps a frame the parent holds no writable
\* mapping of that same frame.
C34_NoWritableSharerEver ==
    /\ [](\A p \in EnvSlots, c \in EnvSlots, va \in VAs :
             ~WritableSharer(p, c, va))
    /\ [][\A p \in EnvSlots, va \in VAs :
             Downgrades(p, va) => ChildHasCow(p, va)]_vars

\* C34, amended: in fork the child's copy-on-write mapping of a page is
\* installed before the parent's own mapping is downgraded; an environment
\* holds a writable mapping of a frame that another environment maps only
\* between the two sys_page_map calls of its duppage for that page and that
\* child, and never while it is outside duppage.
C34_WritableSharerOnlyInsideDuppage ==
    /\ [](\A p \in EnvSlots, c \in EnvSlots, va \in VAs :
             WritableSharer(p, c, va) => InsideDuppage(p, c, va))
    /\ [][\A p \in EnvSlots, va \in VAs :
             Downgrades(p, va) => ChildHasCow(p, va)]_vars

\* a parent is between the two system calls of duppage: the child maps the
\* frame copy-on-write and the parent's mapping is still writable
C34_Witness ==
    \E p \in EnvSlots, va \in VAs :
        /\ uchild[p] # NULL
        /\ InsideDuppage(p, uchild[p], va)
        /\ WritableSharer(p, uchild[p], va)
        /\ ChildHasCow(p, va)

\* environment e takes a step of pgfault that does not end in panic
PgfaultStep(e) ==
    /\ upc[e] \in {UpcPgfault, UpcPfCopy, UpcPfMap, UpcPfUnmap}
    /\ upc'[e] # upc[e]
    /\ upc'[e] # UpcPanic

\* C35: a successful pgfault on a copy-on-write page leaves the faulting
\* page mapped to a new frame whose reference count is exactly 1, the staging
\* mapping at PFTEMP gone, with permissions writable and not copy-on-write;
\* of its steps exactly one, the sys_page_map onto the faulting page, takes
\* one reference from the original frame and the others take none; and no
\* step of it changes a mapping of another environment.
C35_PgfaultPrivatizes ==
    [][\A e \in EnvSlots :
          PgfaultStep(e)
          => LET va == uva[e]
                 orig == pte[e][va].f
                 fresh == pte[e][PFTEMP].f
             IN /\ \A o \in EnvSlots : o # e => pte'[o] = pte[o]
                /\ upc[e] \in {UpcPgfault, UpcPfCopy}
                   => /\ pp_ref'[orig] = pp_ref[orig]
                      /\ pte'[e][va] = pte[e][va]
                /\ upc[e] = UpcPfMap
                   => /\ fresh # orig
                      /\ pp_ref'[orig] = pp_ref[orig] - 1
                      /\ pte'[e][va].f = fresh
                /\ upc[e] = UpcPfUnmap
                   => /\ \A f \in Frames :
                            f # fresh => pp_ref'[f] = pp_ref[f]
                      /\ pte'[e][va] = [f |-> fresh, w |-> TRUE,
                                        cow |-> FALSE]
                      /\ pp_ref'[fresh] = 1
                      /\ pte'[e][PFTEMP] = NoPte]_vars

\* an environment has come out of pgfault with a private writable frame,
\* while another environment still maps the original frame copy-on-write
C35_Witness ==
    \E e \in EnvSlots, o \in EnvSlots :
        /\ o # e
        /\ upc[e] = UpcRetry
        /\ uval[e] # NULL
        /\ pte[e][uva[e]].f # NULL
        /\ pte[e][uva[e]].w
        /\ ~pte[e][uva[e]].cow
        /\ pp_ref[pte[e][uva[e]].f] = 1
        /\ pte[e][PFTEMP] = NoPte
        /\ pte[o][uva[e]].f # NULL
        /\ pte[o][uva[e]].f # pte[e][uva[e]].f
        /\ pte[o][uva[e]].cow

\* environment e leaves the first sys_page_map of a duppage with the page
\* not mapped in the child: the call returned a negative status
DuppageFails(e) ==
    /\ upc[e] = UpcDupChild
    /\ <<upc'[e], uva'[e]>> # <<upc[e], uva[e]>>
    /\ pte'[uchild[e]][uva[e]].f = NULL

\* C36: if a duppage call of fork fails (its sys_page_map returns a negative
\* status, for example out of memory for a page table of the child), fork
\* does not go on with the next page, the exception stack and the final
\* sys_env_set_status that marks the child RUNNABLE.
C36_FailedDuppageStopsFork ==
    [][\A e \in EnvSlots :
          DuppageFails(e)
          => upc'[e] \notin {UpcDupChild, UpcDupSelf, UpcXstack, UpcUpcall,
                             UpcStatus, UpcForkRet}]_vars

(***************************************************************************)
(* Claims about IPC, continued (specification SpecIpc)                     *)
(***************************************************************************)
\* C37: a sys_ipc_try_send that finds the target awaiting and then fails
\* (misaligned srcva, disallowed permission bits, srcva not mapped in the
\* sender, write permission asked for a read-only page, or out of memory
\* while mapping) leaves the target as it was: still awaiting, still
\* ENV_NOT_RUNNABLE, its sender and value fields not overwritten.
C37_FailedSendLeavesTarget ==
    [][/\ \A s \in Senders, t \in IpcEnvs :
             (/\ env_ipc_recving[t]
              /\ SendEntered(s)
              /\ snd' = NoSend
              /\ reg_eax'[s] < 0
              /\ \E value \in 0 .. MaxVal, srcva \in SrcVAs,
                    perm \in SendPerms :
                    ISendBegin(s, t, value, srcva, perm))
             => /\ env_ipc_recving'[t]
                /\ env_status'[t] = ENV_NOT_RUNNABLE
                /\ env_ipc_from'[t] = env_ipc_from[t]
                /\ env_ipc_value'[t] = env_ipc_value[t]
       /\ (/\ snd # NoSend
           /\ snd' = NoSend
           /\ reg_eax'[snd.s] < 0)
          => /\ env_ipc_recving'[snd.t]
             /\ env_status'[snd.t] = ENV_NOT_RUNNABLE]_vars

(***************************************************************************)
(* Claims about the destruction of environments, continued (Spec)          *)
(***************************************************************************)
\* C39: once the status of an environment is ENV_DYING its only next status
\* is ENV_FREE: no step, in particular no sys_env_set_status by its parent,
\* no env_run and no sched_yield, makes it ENV_RUNNABLE, ENV_NOT_RUNNABLE or
\* ENV_RUNNING.
C39_DyingOnlyToFree ==
    [][\A e \in EnvSlots :
          env_status[e] = ENV_DYING
          => env_status'[e] \in {ENV_DYING, ENV_FREE}]_vars

====
